---- MODULE Spec2Model ----
(***************************************************************************)
(* Model of the statistics reconciliation layer (Scouting/scripts/         *)
(* combined_csv.py) and of the player-line parser, the team-totals parser   *)
(* and the totals cache (src/usc_kommentatoren/report.py) of                *)
(* uscmuenster/scouting.                                                   *)
(***************************************************************************)
EXTENDS Integers, Sequences, FiniteSets, TLC

VARIABLES
    rows,          \* the dict `rows` of export_combined_player_stats, in insertion order
    last_call,     \* history: arguments of the latest _merge_row call
    manual_held,   \* history: (key, field) whose stored value came from a manual override
    lines,         \* _parse_team_player_lines: the argument `lines`
    pos,           \* _parse_team_player_lines: index of the next line of the for loop
    pending,       \* _parse_team_player_lines: the local `pending`
    players,       \* _parse_team_player_lines: the local `players`
    emitted,       \* history: for each element of players, the line read when it was appended
    pc,            \* _parse_team_player_lines: "loop" inside the function, "done" after return
    entry,         \* resolve_match_stats_metrics: the argument `entry`
    resolved,      \* history: the values resolve_match_stats_metrics returned for entry
    data,          \* _parse_stats_totals_pdf: what PdfReader makes of the argument `data`
    marker_index,  \* _parse_stats_totals_pdf: position of the for loop in `markers`, from 1
    summaries,     \* _parse_stats_totals_pdf: the local `summaries`
    summary_markers, \* history: for each element of summaries, the line of its marker
    page_pc,       \* _parse_stats_totals_pdf: "idle", "start", "loop", "done" or "raised"
    cache,         \* _STATS_TOTALS_CACHE, for each stats_url
    requests,      \* history: the number of _http_get calls, for each stats_url
    manual,        \* _load_manual_stats_totals(), for each stats_url
    returned,      \* history: what each call of fetch_match_stats_totals left behind
    calls,         \* fetch_match_stats_totals: the calls that run side by side, each with
                   \* its stats_url, its position, its locals and what it ended with
    entries,       \* summarize_metrics: the argument `entries`
    aggregated,    \* history: the values summarize_metrics returned for entries
    payload,       \* _load_manual_stats_totals: payload.get("matches", [])
    match_index,   \* _load_manual_stats_totals: position of the loop over matches, from 1
    load_pc        \* _load_manual_stats_totals: "idle", "loop", "returned" or "raised"

vars ==
    <<rows, last_call, manual_held, lines, pos, pending, players, emitted, pc,
      entry, resolved, data, marker_index, summaries, summary_markers, page_pc,
      cache, requests, manual, returned, calls,
      entries, aggregated, payload, match_index, load_pc>>
mergeVars == <<rows, last_call, manual_held>>
parseVars == <<lines, pos, pending, players, emitted, pc>>
totalsVars == <<entry, resolved>>
pageVars == <<data, marker_index, summaries, summary_markers, page_pc>>
fetchVars == <<cache, requests, manual, returned, calls>>
summaryVars == <<entries, aggregated>>
loaderVars == <<payload, match_index, load_pc>>
statsVars == <<totalsVars, pageVars, fetchVars, summaryVars, loaderVars>>

(***************************************************************************)
(* Bounds                                                                  *)
(***************************************************************************)
MaxMerges == 3
MaxKeyMerges == 2

(***************************************************************************)
(* Values.  Python's None is the string "None"; no field of the model      *)
(* ever holds that text as data.                                           *)
(***************************************************************************)
None == "None"

K1a == "2025-10-01T18:00:00"
K1b == "2025-10-01T20:00:00"
K2 == "2025-10-02T18:00:00"

\* the place of a string of the model in Python's str order (code points)
Rank(s) ==
    LET StrOrder ==
            << "", K1a, K1b, K2, "7", "Ann", "Bo", "M1", "Team A", "Team B",
               "ann", "team a" >>
    IN  CHOOSE i \in 1..Len(StrOrder) : StrOrder[i] = s

\* str.lower()
Lower(s) ==
    CASE s = "Team A" -> "team a"
      [] s = "Team B" -> "team b"
      [] s = "Ann" -> "ann"
      [] s = "Bo" -> "bo"
      [] OTHER -> s

\* Python's `value or ""` for a str-or-None value
OrEmpty(v) == IF v = None \/ v = "" THEN "" ELSE v

SOURCE_PRIORITY_Swapped == [pdf |-> 2, csv |-> 1]

SOURCE_PRIORITY == [pdf |-> 1, csv |-> 2]

Sources == DOMAIN SOURCE_PRIORITY

\* The fields of a row the model keeps (FIELD_ORDER without data_sources and
\* the comparison columns, which _serialise_rows adds).
Fields == {"match_id", "match_number", "kickoff", "team", "player_name", "host"}

(***************************************************************************)
(* _RowState                                                               *)
(*   field_priorities: 0 stands for "field not in the dict"                *)
(*     (the code reads it with .get(field, 0));                            *)
(*   field_values_by_source[f][s] = None stands for "s not in the dict":   *)
(*     the code never stores None there.                                   *)
(***************************************************************************)
MakeBaseRow == [f \in Fields |-> None]

RowKeyCaseSensitive(values) ==
    LET match_id == OrEmpty(values["match_id"])
        match_number == OrEmpty(values["match_number"])
        kickoff_value == OrEmpty(values["kickoff"])
        kickoff_key == IF match_id # "" \/ match_number # "" THEN "" ELSE kickoff_value
    IN  << match_id, match_number, kickoff_key,
           OrEmpty(values["team"]), OrEmpty(values["player_name"]) >>

RowKeyAlwaysKickoff(values) ==
    << OrEmpty(values["match_id"]), OrEmpty(values["match_number"]),
       OrEmpty(values["kickoff"]),
       Lower(OrEmpty(values["team"])), Lower(OrEmpty(values["player_name"])) >>

RowKey(values) ==
    LET match_id == OrEmpty(values["match_id"])
        match_number == OrEmpty(values["match_number"])
        kickoff_value == OrEmpty(values["kickoff"])
        kickoff_key == IF match_id # "" \/ match_number # "" THEN "" ELSE kickoff_value
    IN  << match_id, match_number, kickoff_key,
           Lower(OrEmpty(values["team"])), Lower(OrEmpty(values["player_name"])) >>

HasKey(rs, key) == \E i \in 1..Len(rs) : rs[i].key = key

IndexOfKey(rs, key) == CHOOSE i \in 1..Len(rs) : rs[i].key = key

StateOf(rs, key) == rs[IndexOfKey(rs, key)].state

OverwritesOnTie(stored, priority, current_priority) ==
    stored = None \/ priority >= current_priority

\* The test of line 154.
Overwrites(stored, priority, current_priority) ==
    stored = None \/ priority > current_priority

\* a merge that records a source's value only when that value wins
MergeIntoStateWinnerOnly(state, values, source) ==
    LET priority == SOURCE_PRIORITY[source]
        wins(f) == /\ values[f] # None
                   /\ Overwrites(state.values[f], priority, state.field_priorities[f])
    IN  [ values |-> [f \in Fields |-> IF wins(f) THEN values[f] ELSE state.values[f]],
          field_priorities |->
              [f \in Fields |-> IF wins(f) THEN priority ELSE state.field_priorities[f]],
          data_sources |-> state.data_sources \cup {source},
          field_values_by_source |->
              [f \in Fields |->
                  [s \in Sources |->
                      IF s = source /\ wins(f)
                      THEN values[f]
                      ELSE state.field_values_by_source[f][s]]] ]

\* a merge in which a later record of equal priority also replaces the row's value
MergeIntoStateLatestWins(state, values, source) ==
    LET priority == SOURCE_PRIORITY[source]
        wins(f) == /\ values[f] # None
                   /\ (state.values[f] = None \/ priority >= state.field_priorities[f])
    IN  [ values |-> [f \in Fields |-> IF wins(f) THEN values[f] ELSE state.values[f]],
          field_priorities |->
              [f \in Fields |-> IF wins(f) THEN priority ELSE state.field_priorities[f]],
          data_sources |-> state.data_sources \cup {source},
          field_values_by_source |->
              [f \in Fields |->
                  [s \in Sources |->
                      IF s = source /\ values[f] # None
                      THEN values[f]
                      ELSE state.field_values_by_source[f][s]]] ]

MergeIntoState(state, values, source) ==
    LET priority == SOURCE_PRIORITY[source]
        wins(f) == /\ values[f] # None
                   /\ Overwrites(state.values[f], priority, state.field_priorities[f])
    IN  [ values |-> [f \in Fields |-> IF wins(f) THEN values[f] ELSE state.values[f]],
          field_priorities |->
              [f \in Fields |-> IF wins(f) THEN priority ELSE state.field_priorities[f]],
          data_sources |-> state.data_sources \cup {source},
          field_values_by_source |->
              [f \in Fields |->
                  [s \in Sources |->
                      IF s = source /\ values[f] # None
                      THEN values[f]
                      ELSE state.field_values_by_source[f][s]]] ]

(***************************************************************************)
(* _serialise_rows and the formatters it calls                             *)
(***************************************************************************)
\* _format_kickoff_date: datetime.fromisoformat(text).strftime("%d.%m.%Y");
\* a text fromisoformat rejects is returned as it is.
FormatKickoffDate(value) ==
    CASE value = K1a -> "01.10.2025"
      [] value = K1b -> "01.10.2025"
      [] value = K2 -> "02.10.2025"
      [] OTHER -> value

\* _format_comparison_value; formatter is "date" (_format_kickoff_date) or
\* "str" (no formatter: str(value).strip(), and no string of the model has
\* surrounding whitespace).
FormatComparisonValue(value, formatter) ==
    IF value = None THEN ""
    ELSE IF formatter = "date" THEN FormatKickoffDate(value)
    ELSE value

\* _format_source_comparison; items are those after items.sort(key=priority)
FormatSourceComparison(state, field, formatter) ==
    LET SOURCE_LABELS == [pdf |-> "PDF", csv |-> "CSV"]
        by == state.field_values_by_source[field]
        item(s) == [ label |-> SOURCE_LABELS[s],
                     formatted |-> FormatComparisonValue(by[s], formatter) ]
        items ==
            (IF by["pdf"] # None THEN <<item("pdf")>> ELSE <<>>)
                \o (IF by["csv"] # None THEN <<item("csv")>> ELSE <<>>)
        labels ==
            IF Len(items) = 1 THEN items[1].label
            ELSE items[1].label \o ", " \o items[2].label
        ItemText(it) ==
            IF it.formatted # "" THEN it.label \o ": " \o it.formatted ELSE it.label
        non_empty_values ==
            {items[i].formatted : i \in {j \in 1..Len(items) : items[j].formatted # ""}}
    IN  IF Len(items) = 0
        THEN FormatComparisonValue(state.values[field], formatter)
        ELSE IF Cardinality(non_empty_values) = 1
        THEN labels \o ": " \o (CHOOSE v \in non_empty_values : TRUE)
        ELSE IF Len(items) = 1 THEN ItemText(items[1])
        ELSE ItemText(items[1]) \o " / " \o ItemText(items[2])

\* agreement decided by one equal shared field instead of all of them
SourcesAgreeOnSome(state) ==
    LET shared == {f \in Fields : /\ state.field_values_by_source[f]["csv"] # None
                                  /\ state.field_values_by_source[f]["pdf"] # None}
    IN  /\ {"csv", "pdf"} \subseteq state.data_sources
        /\ \E f \in shared : state.field_values_by_source[f]["csv"]
                                = state.field_values_by_source[f]["pdf"]

SourcesAgree(state) ==
    LET shared == {f \in Fields : /\ state.field_values_by_source[f]["csv"] # None
                                  /\ state.field_values_by_source[f]["pdf"] # None}
    IN  /\ {"csv", "pdf"} \subseteq state.data_sources
        /\ shared # {}
        /\ \A f \in shared : state.field_values_by_source[f]["csv"]
                                = state.field_values_by_source[f]["pdf"]

\* the row of _serialise_rows for one state; data_sources is
\* sorted(state.data_sources), ";"-joined, with "match" appended on agreement
SerialiseRow(state) ==
    LET sources == IF state.data_sources = {"csv", "pdf"} THEN "csv;pdf"
                   ELSE IF state.data_sources = {"csv"} THEN "csv" ELSE "pdf"
    IN  [ values |-> state.values,
          data_sources |-> IF SourcesAgree(state) THEN sources \o ";match" ELSE sources,
          kickoff_comparison |-> FormatSourceComparison(state, "kickoff", "date"),
          host_comparison |-> FormatSourceComparison(state, "host", "str") ]

\* a sort key that puts match_number before kickoff
SortKeyNumberFirst(row) ==
    << OrEmpty(row.values["match_number"]), OrEmpty(row.values["kickoff"]),
       OrEmpty(row.values["team"]), OrEmpty(row.values["player_name"]) >>

\* the key of ordered.sort
SortKey(row) ==
    << OrEmpty(row.values["kickoff"]), OrEmpty(row.values["match_number"]),
       OrEmpty(row.values["team"]), OrEmpty(row.values["player_name"]) >>

\* ordered.sort(key=...) over the serialised rows
SerialiseRows(rs) ==
    LET \* tuple comparison a < b
        KeyLess(a, b) ==
            \E i \in 1..4 : /\ \A j \in 1..(i - 1) : a[j] = b[j]
                            /\ Rank(a[i]) < Rank(b[i])
        \* list.sort is stable: a row goes behind the rows that are not greater
        RECURSIVE InsertSorted(_, _)
        InsertSorted(sorted, row) ==
            IF sorted = <<>> THEN <<row>>
            ELSE IF KeyLess(SortKey(row), SortKey(sorted[1]))
            THEN <<row>> \o sorted
            ELSE <<sorted[1]>> \o InsertSorted(Tail(sorted), row)
        RECURSIVE SortRows(_)
        SortRows(seq) ==
            IF seq = <<>> THEN <<>>
            ELSE InsertSorted(SortRows(SubSeq(seq, 1, Len(seq) - 1)), seq[Len(seq)])
    IN  SortRows([i \in 1..Len(rs) |-> SerialiseRow(rs[i].state)])

(***************************************************************************)
(* The player-line parser of report.py.  A line is the sequence of its     *)
(* whitespace-separated tokens: try_parse collapses whitespace before it   *)
(* parses, and _tokenize_compact_stats_text splits on it.                  *)
(***************************************************************************)
MaxLines == 4
MaxToken == 50

Concat(a, b) == a \o b

\* Optional[int] and Optional[MatchPlayerStats]: <<>> is None, <<x>> is x
NoInt == <<>>
SomeInt(n) == <<n>>
NoPlayer == <<>>
NoPending == <<>>

\* the numbers a token of the model may spell: the small ones, and the
\* larger ones that the totals lines of the model hold
Numbers == (0..MaxToken) \cup {52, 75, 78, 88, 100, 105, 132, 852, 1914, 9961}

IntTokens == {ToString(n) : n \in Numbers}

IntTokenValue == [t \in IntTokens |-> CHOOSE n \in Numbers : ToString(n) = t]

PctTokens == {Concat(ToString(n), "%") : n \in Numbers}

PctTokenValue ==
    [t \in PctTokens |-> CHOOSE n \in Numbers : Concat(ToString(n), "%") = t]

PlusTokens == {Concat("+", ToString(n)) : n \in Numbers}

PlusTokenValue ==
    [t \in PlusTokens |-> CHOOSE n \in Numbers : Concat("+", ToString(n)) = t]

MinusTokens == {Concat("-", ToString(n)) : n \in Numbers}

MinusTokenValue ==
    [t \in MinusTokens |-> CHOOSE n \in Numbers : Concat("-", ToString(n)) = t]

\* the percentage strings MatchStatsMetrics holds, f"{int(round(value))}%"
SignedNumbers == Numbers \cup {0 - n : n \in Numbers}

PctStrings == {Concat(ToString(n), "%") : n \in SignedNumbers}

PctStringValue ==
    [t \in PctStrings |-> CHOOSE n \in SignedNumbers : Concat(ToString(n), "%") = t]

\* tokens the model's lines hold that end in "/"
SlashTokens == {Concat(t, "/") : t \in IntTokens \cup PctTokens}

BeforeSlash ==
    [t \in SlashTokens |-> CHOOSE x \in IntTokens \cup PctTokens : Concat(x, "/") = t]

\* tokens of the form \d+\+\d+ that the lines of the model give rise to
PlusPairs == {"33+2", "33+23"}

ParenPctTokens == {"(15%)", "15%)", "(20%)", "20%)"}

\* _COMPACT_VALUE_PATTERN.match(token)
IsCompactValue(t) ==
    t = "." \/ t \in IntTokens \/ t \in PctTokens \/ t \in PlusTokens \/ t \in MinusTokens

\* int(token) / float(token) of a token the pattern accepts and Python parses
HasNumber(t) == t \in IntTokens \/ t \in PlusTokens \/ t \in MinusTokens

NumberOf(t) ==
    IF t \in IntTokens THEN IntTokenValue[t]
    ELSE IF t \in PlusTokens THEN PlusTokenValue[t]
    ELSE 0 - MinusTokenValue[t]

\* _parse_int_token: int() of the token without "." and ","; 0 when int() raises
ParseIntToken(t) == IF HasNumber(t) THEN NumberOf(t) ELSE 0

\* _parse_optional_int_token
ParseOptionalIntToken(t) == IF HasNumber(t) THEN SomeInt(NumberOf(t)) ELSE NoInt

\* _parse_percentage_token: float() of the token without "%", rounded
ParsePercentageToken(t) ==
    IF HasNumber(t) THEN Concat(ToString(NumberOf(t)), "%")
    ELSE IF t \in PctTokens THEN Concat(ToString(PctTokenValue[t]), "%")
    ELSE "0%"

\* int(round(x / 100)) for an integer x: Python rounds halves to even
RoundHundredth(x) ==
    LET q == x \div 100
        r == x % 100
    IN  IF r > 50 THEN q + 1
        ELSE IF r < 50 THEN q
        ELSE IF q % 2 = 0 THEN q ELSE q + 1

\* _compute_percentage_count
ComputePercentageCount(attempts, pct) ==
    IF attempts <= 0 THEN 0
    ELSE IF pct \in PctStrings THEN RoundHundredth(attempts * PctStringValue[pct])
    ELSE IF HasNumber(pct) THEN RoundHundredth(attempts * NumberOf(pct))
    ELSE 0

\* _tokenize_compact_stats_text: parentheses become blanks, "*" is dropped
RECURSIVE TokenizeCompactStatsText(_)
TokenizeCompactStatsText(tokens) ==
    IF tokens = <<>> THEN <<>>
    ELSE LET t == tokens[1]
             part == CASE t = "*" -> <<>>
                       [] t = "(" -> <<>>
                       [] t = ")" -> <<>>
                       [] t = "20%)" -> <<"20%">>
                       [] t = "(20%)" -> <<"20%">>
                       [] t = "15%)" -> <<"15%">>
                       [] t = "(15%)" -> <<"15%">>
                       [] OTHER -> <<t>>
         IN  part \o TokenizeCompactStatsText(Tail(tokens))

ValueCount == 16

NoTokens == [values |-> <<>>, consumed |-> 0]

\* _extract_compact_value_tokens; NoTokens is its None
ExtractCompactValueTokens(parts) ==
    LET \* the tokens at the end of parts that the backward walk skips before
        \* its first match (values is still empty, so the walk goes on)
        RECURSIVE SkippedAtEnd(_)
        SkippedAtEnd(ps) ==
            IF ps = <<>> \/ IsCompactValue(ps[Len(ps)]) THEN 0
            ELSE 1 + SkippedAtEnd(SubSeq(ps, 1, Len(ps) - 1))
        \* the run of at most `most` matching tokens that ends ps
        RECURSIVE ValueRun(_, _)
        ValueRun(ps, most) ==
            IF ps = <<>> \/ most = 0 \/ ~IsCompactValue(ps[Len(ps)]) THEN <<>>
            ELSE Append(ValueRun(SubSeq(ps, 1, Len(ps) - 1), most - 1), ps[Len(ps)])
        seen == SubSeq(parts, 1, Len(parts) - SkippedAtEnd(parts))
        values == ValueRun(seen, ValueCount)
        \* values.extend(["."] * (16 - len(values))), after values.reverse()
        padded == values \o [i \in 1..(ValueCount - Len(values)) |-> "."]
    IN  IF values = <<>> THEN NoTokens
        ELSE [values |-> padded, consumed |-> Len(values)]

\* MatchStatsMetrics(...) of _build_metrics_from_compact_tokens; the
\* Python indexes 3..15 are the positions 4..16 here
BuildMetricsFromCompactTokens(tokens) ==
    LET receptions_attempts == ParseIntToken(tokens[7])
        receptions_positive_pct == ParsePercentageToken(tokens[9])
        receptions_perfect_pct == ParsePercentageToken(tokens[10])
    IN  [ serves_attempts |-> ParseIntToken(tokens[4]),
          serves_errors |-> ParseIntToken(tokens[5]),
          serves_points |-> ParseIntToken(tokens[6]),
          receptions_attempts |-> receptions_attempts,
          receptions_errors |-> ParseIntToken(tokens[8]),
          receptions_positive_pct |-> receptions_positive_pct,
          receptions_perfect_pct |-> receptions_perfect_pct,
          receptions_positive |->
              ComputePercentageCount(receptions_attempts, receptions_positive_pct),
          receptions_perfect |->
              ComputePercentageCount(receptions_attempts, receptions_perfect_pct),
          attacks_attempts |-> ParseIntToken(tokens[11]),
          attacks_errors |-> ParseIntToken(tokens[12]),
          attacks_blocked |-> ParseIntToken(tokens[13]),
          attacks_points |-> ParseIntToken(tokens[14]),
          attacks_success_pct |-> ParsePercentageToken(tokens[15]),
          blocks_points |-> ParseIntToken(tokens[16]) ]

RECURSIVE Join(_)
\* " ".join(tokens)
Join(tokens) ==
    IF tokens = <<>> THEN ""
    ELSE IF Len(tokens) = 1 THEN tokens[1]
    ELSE Concat(tokens[1], Concat(" ", Join(Tail(tokens))))

\* text.strip(" .:-"), on the tokens of text
StripName(tokens) ==
    LET StripChars == {".", ":", "-"}
        \* token.lstrip(" .:-")
        LeftStrip(t) ==
            IF t \in StripChars THEN ""
            ELSE IF t \in MinusTokens THEN ToString(MinusTokenValue[t])
            ELSE t
        RECURSIVE StripLeft(_)
        StripLeft(ts) ==
            IF ts = <<>> THEN <<>>
            ELSE IF LeftStrip(ts[1]) = "" THEN StripLeft(Tail(ts))
            ELSE <<LeftStrip(ts[1])>> \o Tail(ts)
        \* token.rstrip(" .:-") leaves nothing of the last token
        RECURSIVE StripRight(_)
        StripRight(ts) ==
            IF ts = <<>> THEN <<>>
            ELSE IF ts[Len(ts)] \in StripChars
                 THEN StripRight(SubSeq(ts, 1, Len(ts) - 1))
            ELSE ts
    IN  StripRight(StripLeft(tokens))

\* pretty_name of a player name: no player name is the USC or a league team
PrettyName(tokens) ==
    LET \* the replacements of pretty_name, on one word of the name
        PrettyWord(t) ==
            CASE t = "Weiler" -> "Weißler"
              [] t = "Munster" -> "Münster"
              [] OTHER -> t
    IN  Join([i \in 1..Len(tokens) |-> PrettyWord(tokens[i])])

TeamName == "Team A"

\* _parse_compact_player_stats; NoPlayer is its None
ParseCompactPlayerStats(rest, jersey_number) ==
    LET parts == TokenizeCompactStatsText(rest)
        extracted == ExtractCompactValueTokens(parts)
        value_tokens == extracted.values
        name_tokens == SubSeq(parts, 1, Len(parts) - extracted.consumed)
        \* a token whose first character is one of ". 0-9 + -"
        StartsLikeValue(t) == IsCompactValue(t) \/ t \in {"-", "+"}
        RECURSIVE UntilValue(_)
        UntilValue(tokens) ==
            IF tokens = <<>> \/ StartsLikeValue(tokens[1]) THEN <<>>
            ELSE <<tokens[1]>> \o UntilValue(Tail(tokens))
        \* pre_str[: cutoff.start()]: re.search(r"\s[.\d+-]") needs a blank
        \* before the character, so the first token is never the cut
        name_segment == StripName(<<name_tokens[1]>> \o UntilValue(Tail(name_tokens)))
        UpperLetters ==
            { "A", "B", "C", "D", "E", "F", "G", "H", "I", "J", "K", "L", "M",
              "N", "O", "P", "Q", "R", "S", "T", "U", "V", "W", "X", "Y", "Z" }
        \* the parts of the name that are not a single upper-case letter
        cleaned_parts == SelectSeq(name_segment, LAMBDA t : t \notin UpperLetters)
    IN  IF extracted = NoTokens THEN NoPlayer
        ELSE IF name_tokens = <<>> THEN NoPlayer
        ELSE IF name_segment = <<>> THEN NoPlayer
        ELSE << [ team_name |-> TeamName,
                  player_name |->
                      PrettyName(IF cleaned_parts # <<>> THEN cleaned_parts
                                 ELSE name_segment),
                  jersey_number |-> jersey_number,
                  metrics |-> BuildMetricsFromCompactTokens(value_tokens),
                  total_points |-> SomeInt(ParseIntToken(value_tokens[1])),
                  break_points |-> SomeInt(ParseIntToken(value_tokens[2])),
                  plus_minus |-> SomeInt(ParseIntToken(value_tokens[3])) ] >>

MetricsCount == 13

\* the branch of _parse_player_stats_line taken when the compact parse fails
ParseLineFormat(rest, jersey_number) ==
    LET \* the text _PLAYER_VALUE_PATTERN matches inside a token, <<>> when none
        PlayerValueMatch(t) ==
            IF t \in IntTokens \/ t \in PctTokens \/ t \in MinusTokens \/ t = "-"
            THEN <<t>>
            ELSE IF t \in PlusTokens THEN <<ToString(PlusTokenValue[t])>>
            ELSE IF t \in {"20%)", "(20%)"} THEN <<"20%">>
            ELSE <<>>
        \* the characters of a matching token that come before its match
        BeforeMatch(t) ==
            IF t \in PlusTokens THEN <<"+">>
            ELSE IF t = "(20%)" THEN <<"(">>
            ELSE <<>>
        \* [match.group(0) for match in _PLAYER_VALUE_PATTERN.finditer(rest)]
        RECURSIVE PlayerValueMatches(_)
        PlayerValueMatches(ts) ==
            IF ts = <<>> THEN <<>>
            ELSE PlayerValueMatch(ts[1]) \o PlayerValueMatches(Tail(ts))
        \* rest[: first_value.start()]
        RECURSIVE BeforeFirstMatch(_)
        BeforeFirstMatch(ts) ==
            IF ts = <<>> THEN <<>>
            ELSE IF PlayerValueMatch(ts[1]) # <<>> THEN BeforeMatch(ts[1])
            ELSE <<ts[1]>> \o BeforeFirstMatch(Tail(ts))
        numeric_tokens == PlayerValueMatches(rest)
        name_segment == StripName(BeforeFirstMatch(rest))
        extra_tokens == SubSeq(numeric_tokens, MetricsCount + 1, Len(numeric_tokens))
        receptions_attempts == ParseIntToken(numeric_tokens[4])
        receptions_positive_pct == ParsePercentageToken(numeric_tokens[6])
        receptions_perfect_pct == ParsePercentageToken(numeric_tokens[7])
        metrics ==
            [ serves_attempts |-> ParseIntToken(numeric_tokens[1]),
              serves_errors |-> ParseIntToken(numeric_tokens[2]),
              serves_points |-> ParseIntToken(numeric_tokens[3]),
              receptions_attempts |-> receptions_attempts,
              receptions_errors |-> ParseIntToken(numeric_tokens[5]),
              receptions_positive_pct |-> receptions_positive_pct,
              receptions_perfect_pct |-> receptions_perfect_pct,
              receptions_positive |->
                  ComputePercentageCount(receptions_attempts, receptions_positive_pct),
              receptions_perfect |->
                  ComputePercentageCount(receptions_attempts, receptions_perfect_pct),
              attacks_attempts |-> ParseIntToken(numeric_tokens[8]),
              attacks_errors |-> ParseIntToken(numeric_tokens[9]),
              attacks_blocked |-> ParseIntToken(numeric_tokens[10]),
              attacks_points |-> ParseIntToken(numeric_tokens[11]),
              attacks_success_pct |-> ParsePercentageToken(numeric_tokens[12]),
              blocks_points |-> ParseIntToken(numeric_tokens[13]) ]
    IN  IF Len(numeric_tokens) < MetricsCount THEN NoPlayer
        ELSE IF name_segment = <<>> THEN NoPlayer
        ELSE << [ team_name |-> TeamName,
                  player_name |-> PrettyName(name_segment),
                  jersey_number |-> jersey_number,
                  metrics |-> metrics,
                  total_points |->
                      IF Len(extra_tokens) > 0
                      THEN ParseOptionalIntToken(extra_tokens[1]) ELSE NoInt,
                  break_points |->
                      IF Len(extra_tokens) > 1
                      THEN ParseOptionalIntToken(extra_tokens[2]) ELSE NoInt,
                  plus_minus |->
                      IF Len(extra_tokens) > 2
                      THEN ParseOptionalIntToken(extra_tokens[3]) ELSE NoInt ] >>

\* re.match(r"^\s*(\d{1,3})", cleaned): the digits that open the line
JerseyOf(line) ==
    IF line[1] \in IntTokens THEN SomeInt(IntTokenValue[line[1]])
    ELSE IF line[1] \in PctTokens THEN SomeInt(PctTokenValue[line[1]])
    ELSE NoInt

\* cleaned[jersey_match.end():].strip()
AfterJersey(line) ==
    IF line[1] \in IntTokens THEN Tail(line)
    ELSE IF line[1] \in PctTokens THEN <<"%">> \o Tail(line)
    ELSE line

\* cleaned.lower().startswith(("trainer", "team", "coaches"))
StaffWords ==
    { "Trainer", "Trainer:", "Trainerin", "Team", "Teamarzt", "Coaches", "trainer",
      "team", "coaches", "TRAINER", "TEAM", "COACHES" }

\* _parse_player_stats_line; NoPlayer is its None
ParsePlayerStatsLine(line) ==
    IF line = <<>> THEN NoPlayer
    ELSE IF line[1] \in StaffWords THEN NoPlayer
    ELSE IF AfterJersey(line) = <<>> THEN NoPlayer
    ELSE LET compact_parsed == ParseCompactPlayerStats(AfterJersey(line), JerseyOf(line))
         IN  IF compact_parsed # NoPlayer THEN compact_parsed
             ELSE ParseLineFormat(AfterJersey(line), JerseyOf(line))

\* try_parse of _parse_team_player_lines
TryParse(text) == ParsePlayerStatsLine(text)

\* word in stripped.lower()
Mentions(line, words) == \E i \in 1..Len(line) : line[i] \in words

\* the column headings that restart the buffer; the first test is
\* re.match(r"(?i)^nr\b", stripped)
IsHeadingLine(line) ==
    \/ line[1] \in {"Nr", "Nr.", "NR", "nr", "nr."}
    \/ Mentions(line, {"Aufschlag", "aufschlag"}) /\ Mentions(line, {"Annahme", "annahme"})
    \/ Mentions(line, {"Angriff", "angriff"}) /\ Mentions(line, {"Block", "block"})
    \/ line[1] \in {"Libero", "libero", "LIBERO", "Liberos", "Libero:"}

\* re.search(r"\d", stripped)
HasDigit(line) ==
    \E i \in 1..Len(line) :
        \/ line[i] \in IntTokens \/ line[i] \in PctTokens
        \/ line[i] \in PlusTokens \/ line[i] \in MinusTokens
        \/ line[i] \in SlashTokens \/ line[i] \in PlusPairs
        \/ line[i] \in ParenPctTokens
        \/ line[i] \in {"33+23/", "30%(15%)", "25:20"}

\* the physical lines of a team block, already stripped and split
BlankLine == <<>>
JordanLine == <<"9", "Jordan,", "Emilia", "Diagonal">>
WeilerLine == <<"10", "Weiler", "Anna", "Libera">>
ValuesLine ==
    << "12", "2", "1", "15", "3", "40%", "20%", "25", "5", "2", "10", "45%", "3", "18" >>
MalmLine ==
    << "5", "MALM", "Cecilia", "1", "2", "*", "*", "6", "4", "+2", "13", "1", "2",
       "10", ".", "40%", "(", "20%)", "12", "3", ".", "4", "33%", "." >>
TextLine == <<"Mittelblock">>
DashLine ==
    << "7", "Koch", "Lea", "-", "-", "-", "-", "-", "-", "-", "-", "-", "-", "-",
       "-", "-" >>

TrainerLine == <<"Trainer", "Schmidt">>

\* the team blocks _parse_team_player_lines is called with
LineInputs ==
    LET alphabet ==
            { BlankLine, <<"Nr", "Name", "Pos">>, JordanLine, WeilerLine, ValuesLine,
              MalmLine, TextLine, DashLine, TrainerLine }
    IN  UNION {[1..n -> alphabet] : n \in 0..MaxLines}

\* lines that end in fewer than 16 value tokens, and the lines of
\* test_parse_compact_stats_handles_split_sign_tokens and of
\* test_parse_compact_stats_handles_split_negative_tokens (with 20% for 10%)
ShortLine == <<"9", "Jordan", "3", "18">>
TrailingTextLine == <<"9", "Jordan", "3", "18", "Libera">>
SplitPlusLine ==
    << "4", "ten", "Brinke", "Marije", "3", "3", "6", "*", "*", "*", "*", "12", "9",
       "+", "10", "7", ".", "1", "1", ".", "100%", ".", "9", "1", "1", "7", "78%",
       "4" >>
SplitMinusLine ==
    << "11", "Frobel", "Svea", "2", "4", "4", "*", "*", "9", "1", "-", "5", "8", ".",
       ".", "30", "5", "33%", "(", "20%)", "30", "5", "4", "9", "30%", "." >>

MaxTokenLines == 2

\* team blocks whose lines end in few value tokens or hold a split sign
TokenLineInputs ==
    LET alphabet ==
            { BlankLine, <<"Nr", "Name", "Pos">>, JordanLine, TextLine, TrainerLine,
              ValuesLine, MalmLine, ShortLine, TrailingTextLine, SplitPlusLine,
              SplitMinusLine }
    IN  UNION {[1..n -> alphabet] : n \in 0..MaxTokenLines}

\* players.append(parsed); emitted remembers the line that was being read
Emit(parsed) ==
    /\ players' = players \o parsed
    /\ emitted' = Append(emitted, pos)

\* if not stripped: continue
SkipBlankLine ==
    /\ pc = "loop" /\ pos <= Len(lines)
    /\ lines[pos] = BlankLine
    /\ pos' = pos + 1
    /\ UNCHANGED <<lines, pending, players, emitted, pc, mergeVars, statsVars>>

\* the three heading tests: pending = None; continue
ResetOnHeading ==
    /\ pc = "loop" /\ pos <= Len(lines)
    /\ lines[pos] # BlankLine
    /\ IsHeadingLine(lines[pos])
    /\ pending' = NoPending
    /\ pos' = pos + 1
    /\ UNCHANGED <<lines, players, emitted, pc, mergeVars, statsVars>>

\* a line that is read while something is buffered or not
ContentLine ==
    /\ pc = "loop" /\ pos <= Len(lines)
    /\ lines[pos] # BlankLine
    /\ ~IsHeadingLine(lines[pos])

\* the texts try_parse is given while the line at pos is read
TriedTexts ==
    IF ~ContentLine THEN {}
    ELSE IF pending = NoPending THEN {lines[pos]}
    ELSE IF TryParse(pending[1] \o lines[pos]) # NoPlayer THEN {pending[1] \o lines[pos]}
    ELSE {pending[1] \o lines[pos], lines[pos]}

\* the parts _parse_compact_player_stats hands to _extract_compact_value_tokens
\* while the line at pos is read
ExtractedParts ==
    { TokenizeCompactStatsText(AfterJersey(text)) :
        text \in {t \in TriedTexts : t[1] \notin StaffWords /\ AfterJersey(t) # <<>>} }

\* combined = f"{pending} {stripped}" parses
EmitCombined ==
    /\ ContentLine
    /\ pending # NoPending
    /\ TryParse(pending[1] \o lines[pos]) # NoPlayer
    /\ Emit(TryParse(pending[1] \o lines[pos]))
    /\ pending' = NoPending
    /\ pos' = pos + 1
    /\ UNCHANGED <<lines, pc, mergeVars, statsVars>>

\* the combination does not parse, the new line alone does
EmitAlone ==
    /\ ContentLine
    /\ pending # NoPending
    /\ TryParse(pending[1] \o lines[pos]) = NoPlayer
    /\ TryParse(lines[pos]) # NoPlayer
    /\ Emit(TryParse(lines[pos]))
    /\ pending' = NoPending
    /\ pos' = pos + 1
    /\ UNCHANGED <<lines, pc, mergeVars, statsVars>>

\* neither parses and the new line holds a digit: pending = combined
ExtendPending ==
    /\ ContentLine
    /\ pending # NoPending
    /\ TryParse(pending[1] \o lines[pos]) = NoPlayer
    /\ TryParse(lines[pos]) = NoPlayer
    /\ HasDigit(lines[pos])
    /\ pending' = <<pending[1] \o lines[pos]>>
    /\ pos' = pos + 1
    /\ UNCHANGED <<lines, players, emitted, pc, mergeVars, statsVars>>

\* neither parses and the new line holds no digit: pending = stripped
ReplacePending ==
    /\ ContentLine
    /\ pending # NoPending
    /\ TryParse(pending[1] \o lines[pos]) = NoPlayer
    /\ TryParse(lines[pos]) = NoPlayer
    /\ ~HasDigit(lines[pos])
    /\ pending' = <<lines[pos]>>
    /\ pos' = pos + 1
    /\ UNCHANGED <<lines, players, emitted, pc, mergeVars, statsVars>>

\* nothing is buffered and the line parses
EmitLine ==
    /\ ContentLine
    /\ pending = NoPending
    /\ TryParse(lines[pos]) # NoPlayer
    /\ Emit(TryParse(lines[pos]))
    /\ pending' = NoPending
    /\ pos' = pos + 1
    /\ UNCHANGED <<lines, pc, mergeVars, statsVars>>

\* nothing is buffered and the line does not parse: pending = stripped
BufferLine ==
    /\ ContentLine
    /\ pending = NoPending
    /\ TryParse(lines[pos]) = NoPlayer
    /\ pending' = <<lines[pos]>>
    /\ pos' = pos + 1
    /\ UNCHANGED <<lines, players, emitted, pc, mergeVars, statsVars>>

\* after the loop: the buffer is parsed once more, then players is returned
ReturnPlayers ==
    /\ pc = "loop" /\ pos > Len(lines)
    /\ IF pending # NoPending /\ TryParse(pending[1]) # NoPlayer
       THEN Emit(TryParse(pending[1]))
       ELSE UNCHANGED <<players, emitted>>
    /\ pc' = "done"
    /\ UNCHANGED <<lines, pos, pending, mergeVars, statsVars>>

(***************************************************************************)
(* The calls of _merge_row                                                 *)
(***************************************************************************)
NoCall == [n |-> 0, values |-> MakeBaseRow, source |-> "pdf", origin |-> "parsed"]

\* _merge_row(rows, values, source=...).  origin tells where the record comes
\* from: "parsed", "manual" or "csv".  A "pdf" record is built from the
\* players of fetch_match_stats_totals, which are those of the manual
\* override entry when it has players and the parsed ones otherwise; both are
\* folded in with source="pdf".
MergeRow(values, origin) ==
    LET source == IF origin = "csv" THEN "csv" ELSE "pdf"
        key == RowKey(values)
        \* _RowState(values=..., ...) of a key that is new
        new_state ==
            [ values |-> [f \in Fields |-> IF f \in DOMAIN values THEN values[f]
                                                                   ELSE MakeBaseRow[f]],
              field_priorities |->
                  [f \in Fields |-> IF values[f] # None THEN SOURCE_PRIORITY[source] ELSE 0],
              data_sources |-> {source},
              field_values_by_source |->
                  [f \in Fields |->
                      [s \in Sources |-> IF s = source /\ values[f] # None
                                         THEN values[f] ELSE None]] ]
        \* whether the call stores values[f] as the row's value of f
        StoresField(f) ==
            /\ values[f] # None
            /\ \/ ~HasKey(rows, key)
               \/ LET state == StateOf(rows, key)
                  IN  Overwrites(state.values[f], SOURCE_PRIORITY[source],
                                 state.field_priorities[f])
        stored == {f \in Fields : StoresField(f)}
    IN  /\ rows' = IF ~HasKey(rows, key)
                   THEN Append(rows, [key |-> key, state |-> new_state])
                   ELSE [rows EXCEPT ![IndexOfKey(rows, key)].state =
                                         MergeIntoState(@, values, source)]
        /\ last_call' = [n |-> last_call.n + 1, values |-> values,
                         source |-> source, origin |-> origin]
        /\ manual_held' =
               IF origin = "manual"
               THEN manual_held \cup {<<key, f>> : f \in stored}
               ELSE manual_held \ {<<key, f>> : f \in stored}
        /\ UNCHANGED <<parseVars, statsVars>>

\* Records that differ in what they report for one match of one player.
DataEntries ==
    { [match_id |-> "M1", match_number |-> "7", kickoff |-> k,
       team |-> "Team A", player_name |-> "Ann", host |-> h] :
         k \in {None, K1a, K1b, K2}, h \in {None, "Team A", "Team B"} }

\* Records that differ in how they identify the match, the team and the player.
KeyEntries ==
    { [match_id |-> mid, match_number |-> mnum, kickoff |-> k,
       team |-> t, player_name |-> p, host |-> "Team A"] :
         mid \in {None, "M1"}, mnum \in {None, "7"}, k \in {K1a, K2},
         t \in {"Team A", "team a"}, p \in {"Ann", "ann"} }

MergePdfRow ==
    /\ last_call.n < MaxMerges
    /\ \E values \in DataEntries, origin \in {"parsed", "manual"} :
           MergeRow(values, origin)

MergeCsvRow ==
    /\ last_call.n < MaxMerges
    /\ \E values \in DataEntries : MergeRow(values, "csv")

MergeKeyedPdfRow ==
    /\ last_call.n < MaxKeyMerges
    /\ \E values \in KeyEntries : MergeRow(values, "parsed")

MergeKeyedCsvRow ==
    /\ last_call.n < MaxKeyMerges
    /\ \E values \in KeyEntries : MergeRow(values, "csv")

\* the statistics of a player who is on the roster and did not play
ZeroMetrics ==
    [ serves_attempts |-> 0, serves_errors |-> 0, serves_points |-> 0,
      receptions_attempts |-> 0, receptions_errors |-> 0,
      receptions_positive_pct |-> "0%", receptions_perfect_pct |-> "0%",
      receptions_positive |-> 0, receptions_perfect |-> 0,
      attacks_attempts |-> 0, attacks_errors |-> 0, attacks_blocked |-> 0,
      attacks_points |-> 0, attacks_success_pct |-> "0%", blocks_points |-> 0 ]

(***************************************************************************)
(* The totals line of a team: _normalize_stats_totals_line,                *)
(* _split_compound_value, _parse_match_stats_metrics and                   *)
(* resolve_match_stats_metrics.  A totals line is the sequence of its      *)
(* blank-separated tokens.                                                 *)
(***************************************************************************)
MaxResolves == 2

NoMetrics == <<>>

\* _normalize_stats_totals_line
NormalizeStatsTotalsLine(tokens) ==
    LET RECURSIVE Dashes(_)
        Dashes(n) == IF n = 1 THEN "-" ELSE Concat("-", Dashes(n - 1))
        \* the tokens that end in "-": a line of the model holds at most
        \* MetricsCount dashes in a row
        DashRuns == {Dashes(n) : n \in 1..MetricsCount}
        \* re.sub(r"-\s+", "-", ...) and re.sub(r"\(\s*", "(", ...): a token
        \* that ends in the character loses the blank behind it
        RECURSIVE GlueForward(_, _)
        GlueForward(ts, open) ==
            IF Len(ts) < 2 THEN ts
            ELSE IF ts[1] \in open
                 THEN GlueForward(<<Concat(ts[1], ts[2])>> \o SubSeq(ts, 3, Len(ts)), open)
                 ELSE <<ts[1]>> \o GlueForward(Tail(ts), open)
        \* re.sub(r"\s*\)", ")", ...): a token that starts with ")" loses the
        \* blank in front of it
        RECURSIVE GlueBackward(_, _)
        GlueBackward(ts, close) ==
            IF Len(ts) < 2 THEN ts
            ELSE LET n == Len(ts)
                 IN  IF ts[n] \in close
                     THEN GlueBackward(SubSeq(ts, 1, n - 2)
                                           \o <<Concat(ts[n - 1], ts[n])>>, close)
                     ELSE GlueBackward(SubSeq(ts, 1, n - 1), close) \o <<ts[n]>>
        \* the three rewrites that insert a blank:
        \* r"(\d+\+\d{1,2})(\d+)" -> r"\1 \2", "%(" -> "% (" and
        \* r"%(?=\d)" -> "% ", on the tokens of the model
        SplitGlued(t) ==
            CASE t = "33+23/" -> <<"33+2", "3/">>
              [] t = "30%(15%)" -> <<"30%", "(15%)">>
              [] OTHER -> <<t>>
        RECURSIVE SplitEach(_)
        SplitEach(ts) ==
            IF ts = <<>> THEN <<>> ELSE SplitGlued(ts[1]) \o SplitEach(Tail(ts))
    IN  SplitEach(GlueBackward(GlueForward(GlueForward(tokens, DashRuns), {"("}), {")"}))

\* _split_compound_value on the digits of value; NoSplit is its None
NoSplit == <<>>

SplitCompoundValue(digits, first_max, second_max) ==
    LET RECURSIVE DigitsValue(_)
        \* int(first_digits) if first_digits else 0
        DigitsValue(ds) ==
            IF ds = <<>> THEN 0
            ELSE 10 * DigitsValue(SubSeq(ds, 1, Len(ds) - 1)) + ds[Len(ds)]
        SplitAt(second_len) ==
            <<DigitsValue(SubSeq(digits, 1, Len(digits) - second_len)),
              DigitsValue(SubSeq(digits, Len(digits) - second_len + 1, Len(digits)))>>
        \* max_second_len = min(3, len(digits))
        max_second_len == IF Len(digits) < 3 THEN Len(digits) ELSE 3
        within ==
            { k \in 1..max_second_len :
                  SplitAt(k)[1] <= first_max /\ SplitAt(k)[2] <= second_max }
    IN  IF digits = <<>> \/ within = {} THEN NoSplit
        ELSE SplitAt(CHOOSE k \in within : \A other \in within : k <= other)

\* _parse_match_stats_metrics; NoMetrics is its None
ParseMatchStatsMetrics(line) ==
    LET \* _TOTALS_LABEL_PATTERN, in the letter case the lines of the model use
        IsNoLabel(t) == t \notin {"Aufschlag", "Annahme", "Angriff", "Block", "Punkte"}
        normalized_line == SelectSeq(NormalizeStatsTotalsLine(line), IsNoLabel)
        compact_result ==
            ExtractCompactValueTokens(TokenizeCompactStatsText(normalized_line))
        \* re.findall(r"\d+%|\d+\+\d+|\d+", ...) inside one token
        NumberFragments(t) ==
            CASE t \in IntTokens \cup PctTokens -> <<t>>
              [] t \in SlashTokens -> <<BeforeSlash[t]>>
              [] t \in PlusTokens -> <<ToString(PlusTokenValue[t])>>
              [] t \in MinusTokens -> <<ToString(MinusTokenValue[t])>>
              [] t \in PlusPairs -> <<t>>
              [] t \in ParenPctTokens -> TokenizeCompactStatsText(<<t>>)
              [] OTHER -> <<>>
        RECURSIVE FindNumbers(_)
        FindNumbers(ts) ==
            IF ts = <<>> THEN <<>> ELSE NumberFragments(ts[1]) \o FindNumbers(Tail(ts))
        found == FindNumbers(normalized_line)
        \* tokens[1] = f"{tokens[1]}{tokens[2]}"; tokens.pop(2): the
        \* break-points value that the normaliser cut in two is put together
        tokens ==
            IF Len(found) > 13 /\ found[2] = "33+2" /\ found[3] \in IntTokens
            THEN <<found[1], Concat(found[2], found[3])>> \o SubSeq(found, 4, Len(found))
            ELSE found
        RECURSIVE Digits(_)
        Digits(n) == IF n < 10 THEN <<n>> ELSE Append(Digits(n \div 10), n % 10)
        \* re.sub(r"\D+", "", value)
        DigitsOf(t) ==
            CASE t \in IntTokens -> Digits(IntTokenValue[t])
              [] t \in PctTokens -> Digits(PctTokenValue[t])
              [] t = "33+2" -> <<3, 3, 2>>
              [] t = "33+23" -> <<3, 3, 2, 3>>
        \* MatchStatsMetrics(...) from the two splits and the values
        \* serves_attempts, receptions_attempts, receptions_errors,
        \* receptions_positive_pct, receptions_perfect_pct, attacks_attempts,
        \* attacks_errors, attacks_success_pct, blocks_points
        Metrics(serve_split, attack_split, v) ==
            [ serves_attempts |-> v[1],
              serves_errors |-> serve_split[1],
              serves_points |-> serve_split[2],
              receptions_attempts |-> v[2],
              receptions_errors |-> v[3],
              receptions_positive_pct |-> v[4],
              receptions_perfect_pct |-> v[5],
              receptions_positive |-> ComputePercentageCount(v[2], v[4]),
              receptions_perfect |-> ComputePercentageCount(v[2], v[5]),
              attacks_attempts |-> v[6],
              attacks_errors |-> v[7],
              attacks_blocked |-> attack_split[1],
              attacks_points |-> attack_split[2],
              attacks_success_pct |-> v[8],
              blocks_points |-> v[9] ]
        \* the branch `if not match:`: the splits have the bounds 60/60 and
        \* 40/150
        TokenFormMetrics ==
            IF Len(tokens) < 13 \/ tokens[2] \notin PlusPairs THEN NoMetrics
            ELSE LET serve_split == SplitCompoundValue(DigitsOf(tokens[4]), 60, 60)
                     attack_split == SplitCompoundValue(DigitsOf(tokens[11]), 40, 150)
                 IN  IF serve_split = NoSplit \/ attack_split = NoSplit THEN NoMetrics
                     ELSE IF \E i \in {3, 5, 6, 9, 10, 13} : tokens[i] \notin IntTokens
                     THEN NoMetrics
                     ELSE <<Metrics(serve_split, attack_split,
                                    <<IntTokenValue[tokens[3]], IntTokenValue[tokens[5]],
                                      IntTokenValue[tokens[6]], tokens[7], tokens[8],
                                      IntTokenValue[tokens[9]], IntTokenValue[tokens[10]],
                                      tokens[12], IntTokenValue[tokens[13]]>>)>>
        \* int() of the digits a token ends in, and of those it starts with
        TrailingNumber(t) ==
            IF t \in IntTokens THEN IntTokenValue[t]
            ELSE IF t \in PlusTokens THEN PlusTokenValue[t]
            ELSE MinusTokenValue[t]
        LeadingNumber(t) ==
            LET head == IF t \in SlashTokens THEN BeforeSlash[t] ELSE t
            IN  IF head \in IntTokens THEN IntTokenValue[head]
                ELSE IF head \in PctTokens THEN PctTokenValue[head]
                ELSE 33
        \* _MATCH_STATS_LINE_PATTERN matches the eleven tokens from position i on
        LineFormAt(i) ==
            /\ i + 10 <= Len(normalized_line)
            /\ HasNumber(normalized_line[i])
            /\ \A k \in {1, 2, 3, 6, 7, 8} : normalized_line[i + k] \in IntTokens
            /\ normalized_line[i + 4] \in PctTokens
            /\ normalized_line[i + 5] \in {"(15%)", "(20%)"}
            /\ normalized_line[i + 9] \in PctTokens
            /\ normalized_line[i + 10]
                   \in IntTokens \cup PctTokens \cup SlashTokens \cup PlusPairs
        \* _MATCH_STATS_LINE_PATTERN.search: the first position that matches, or 0
        match ==
            IF \E i \in 1..Len(normalized_line) : LineFormAt(i)
            THEN CHOOSE i \in 1..Len(normalized_line) :
                     LineFormAt(i) /\ \A j \in 1..(i - 1) : ~LineFormAt(j)
            ELSE 0
        \* the branch that reads match.groupdict(): the splits have the bounds
        \* 150/60 and 60/150
        LineFormMetrics ==
            LET t == SubSeq(normalized_line, match, match + 10)
                serve_split == SplitCompoundValue(DigitsOf(t[2]), 150, 60)
                attack_split == SplitCompoundValue(DigitsOf(t[9]), 60, 150)
            IN  IF serve_split = NoSplit \/ attack_split = NoSplit THEN NoMetrics
                ELSE <<Metrics(serve_split, attack_split,
                               <<TrailingNumber(t[1]), IntTokenValue[t[3]],
                                 IntTokenValue[t[4]], t[5],
                                 TokenizeCompactStatsText(<<t[6]>>)[1],
                                 IntTokenValue[t[7]], IntTokenValue[t[8]],
                                 t[10], LeadingNumber(t[11])>>)>>
    IN  IF compact_result # NoTokens
        THEN <<BuildMetricsFromCompactTokens(compact_result.values)>>
        ELSE IF match # 0 THEN LineFormMetrics
        ELSE TokenFormMetrics

\* a mutation of ResolveMatchStatsMetrics: the totals line is parsed even
\* when entry.metrics is set
ResolveFromTotalsLine(e) ==
    IF e.totals_line = <<>> THEN e.metrics ELSE ParseMatchStatsMetrics(e.totals_line)

\* resolve_match_stats_metrics
ResolveMatchStatsMetrics(e) ==
    IF e.metrics # NoMetrics THEN e.metrics
    ELSE IF e.totals_line = <<>> THEN NoMetrics
    ELSE ParseMatchStatsMetrics(e.totals_line)

KeywordTotals ==
    <<"Punkte", "75", "33", "+23", "Aufschlag", "105", "19", "14",
      "Annahme", "88", "15", "30%", "(", "15%)",
      "Angriff", "132", "10", "8", "52", "39%", "Block", "9">>

GluedTotals ==
    <<"105", "1914", "88", "15", "30%(15%)", "132", "10", "852", "39%", "9">>

SlashTotals ==
    <<"75/", "33+23/", "105/", "1914/", "88/", "15/", "30%/", "15%/",
      "132/", "10/", "852/", "39%/", "9/">>

UnsplitTotals ==
    <<"75/", "33+23/", "105/", "9961/", "88/", "15/", "30%/", "15%/",
      "132/", "10/", "852/", "39%/", "9/">>

\* the metrics a manual correction carries
ManualMetrics ==
    [ZeroMetrics EXCEPT !.serves_attempts = 6, !.serves_errors = 3,
                        !.attacks_attempts = 3, !.attacks_points = 2,
                        !.attacks_success_pct = "67%", !.blocks_points = 2]

\* MatchStatsTotals(team_name, header_lines, totals_line, metrics, players)
MatchStatsTotals(team_name, header_lines, totals_line, metrics, team_players) ==
    [ team_name |-> team_name, header_lines |-> header_lines,
      totals_line |-> totals_line, metrics |-> metrics, players |-> team_players ]

\* the entries resolve_match_stats_metrics is applied to: every totals line
\* of the model, with metrics unset or set
TotalsEntries ==
    { MatchStatsTotals(TeamName, <<>>, line, metrics, <<>>) :
          line \in { <<>>, KeywordTotals, GluedTotals, SlashTotals, UnsplitTotals,
                     <<"105/", "1914/">>, MalmLine, ValuesLine, TextLine, DashLine,
                     TrainerLine, JordanLine, WeilerLine },
          metrics \in {NoMetrics, <<ZeroMetrics>>, <<ManualMetrics>>} }

\* resolve_match_stats_metrics(entry) is called and its value is kept
Resolve ==
    /\ Len(resolved) < MaxResolves
    /\ resolved' = Append(resolved, ResolveMatchStatsMetrics(entry))
    /\ UNCHANGED <<entry, mergeVars, parseVars, pageVars, fetchVars, summaryVars, loaderVars>>

NoTotals ==
    /\ entry = MatchStatsTotals(TeamName, <<>>, <<>>, NoMetrics, <<>>)
    /\ resolved = <<>>

(***************************************************************************)
(* _parse_stats_totals_pdf.  The argument is what PdfReader makes of the   *)
(* bytes: it raises, it has no pages, extract_text raises, or the first    *)
(* page has a text, which is the sequence of its lines; a line is the      *)
(* sequence of its tokens, separated by single blanks.                     *)
(***************************************************************************)
MaxPageLines == 4

MarkerLine == <<"Spieler", "insgesamt">>
EnglishMarkerLine == <<"Players", "total">>
BilingualMarkerLine == <<"Spieler", "insgesamt", "/", "Players", "total">>
OverviewLine == <<"Spielerinnen", "Übersicht">>

Unreadable == [kind |-> "unreadable", text |-> <<>>]
NoPages == [kind |-> "no pages", text |-> <<>>]
Unextractable == [kind |-> "unextractable", text |-> <<>>]
PageOf(text) == [kind |-> "page", text |-> text]

\* the bytes _parse_stats_totals_pdf is called with
PageInputs ==
    LET alphabet ==
            { BlankLine, MarkerLine, EnglishMarkerLine, BilingualMarkerLine,
              OverviewLine, KeywordTotals, <<"Satz", "1", "25:20">>, MalmLine }
    IN  {Unreadable, NoPages, Unextractable}
            \cup {PageOf(text) : text \in UNION {[1..n -> alphabet] : n \in 0..MaxPageLines}}

\* line.strip() == "Spieler insgesamt"
IsMarker(line) == line = MarkerLine

\* markers = [idx for idx, line in enumerate(lines) if ...], in page order
Markers(text) ==
    LET RECURSIVE IndexesWhere(_, _)
        IndexesWhere(i, found) ==
            IF i > Len(text) THEN found
            ELSE IndexesWhere(i + 1, IF IsMarker(text[i]) THEN Append(found, i) ELSE found)
    IN  IndexesWhere(1, <<>>)

\* _extract_stats_team_names
ExtractStatsTeamNames(text) ==
    LET \* team_pattern.match(stripped): the last token is a number and
        \* something stands in front of it
        MatchesTeamPattern(line) == Len(line) >= 2 /\ line[Len(line)] \in IntTokens
        \* match.group(1).strip(): a leading "Spielbericht" is left out when a
        \* name follows it
        candidate(line) ==
            IF line[1] = "Spielbericht" /\ Len(line) > 2
            THEN Join(SubSeq(line, 2, Len(line) - 1))
            ELSE Join(SubSeq(line, 1, Len(line) - 1))
        RECURSIVE TeamNamesFrom(_, _)
        TeamNamesFrom(i, names) ==
            IF i > Len(text) \/ Len(names) >= 2 THEN names
            ELSE IF /\ text[i] # BlankLine
                    /\ MatchesTeamPattern(text[i])
                    /\ candidate(text[i]) \notin {"Spielbericht", "spielbericht"}
                 THEN TeamNamesFrom(i + 1, Append(names, candidate(text[i])))
                 ELSE TeamNamesFrom(i + 1, names)
    IN  TeamNamesFrom(1, <<>>)

\* _normalize_stats_header_line: the line from "Satz" on
NormalizeStatsHeaderLine(line) ==
    IF \E i \in 1..Len(line) : line[i] = "Satz"
    THEN SubSeq(line, CHOOSE i \in 1..Len(line) :
                          /\ line[i] = "Satz"
                          /\ \A j \in 1..(i - 1) : line[j] # "Satz",
                Len(line))
    ELSE line

\* totals_candidates: for probe in range(marker + 1, len(lines))
TotalsCandidates(text, marker) ==
    LET \* "Spieler insgesamt" in candidate
        ContainsMarker(line) ==
            \E i \in 1..(Len(line) - 1) : line[i] = "Spieler" /\ line[i + 1] = "insgesamt"
        RECURSIVE ScanTotals(_, _)
        ScanTotals(probe, totals_candidates) ==
            IF probe > Len(text) THEN totals_candidates
            ELSE LET candidate == text[probe]
                 IN  IF candidate = BlankLine
                     THEN IF totals_candidates # <<>> THEN totals_candidates
                          ELSE ScanTotals(probe + 1, totals_candidates)
                     ELSE IF candidate[1] = "Satz" THEN totals_candidates
                     ELSE IF ContainsMarker(candidate) THEN totals_candidates
                     ELSE IF ~HasDigit(candidate)
                     THEN IF totals_candidates # <<>> THEN totals_candidates
                          ELSE ScanTotals(probe + 1, totals_candidates)
                     ELSE ScanTotals(probe + 1, Append(totals_candidates, candidate))
    IN  ScanTotals(marker + 1, <<>>)

RECURSIVE ParseLinesFrom(_, _, _, _)
\* the loop of _parse_team_player_lines from line i on, and its end
ParseLinesFrom(ls, i, buffer, found) ==
    IF i > Len(ls)
    THEN IF buffer # NoPending THEN found \o TryParse(buffer[1]) ELSE found
    ELSE LET stripped == ls[i]
         IN  IF stripped = BlankLine THEN ParseLinesFrom(ls, i + 1, buffer, found)
             ELSE IF IsHeadingLine(stripped)
             THEN ParseLinesFrom(ls, i + 1, NoPending, found)
             ELSE IF buffer # NoPending /\ TryParse(buffer[1] \o stripped) # NoPlayer
             THEN ParseLinesFrom(ls, i + 1, NoPending,
                                 found \o TryParse(buffer[1] \o stripped))
             ELSE IF TryParse(stripped) # NoPlayer
             THEN ParseLinesFrom(ls, i + 1, NoPending, found \o TryParse(stripped))
             ELSE IF buffer # NoPending /\ HasDigit(stripped)
             THEN ParseLinesFrom(ls, i + 1, <<buffer[1] \o stripped>>, found)
             ELSE ParseLinesFrom(ls, i + 1, <<stripped>>, found)

\* _parse_team_player_lines(lines, team_name) as a value
ParseTeamPlayerLines(ls, team_name) ==
    LET WithTeam(parsed) ==
            [k \in 1..Len(parsed) |-> [parsed[k] EXCEPT !.team_name = team_name]]
    IN  WithTeam(ParseLinesFrom(ls, 1, NoPending, <<>>))

\* the MatchStatsTotals that the loop body appends for the marker;
\* marker_index counts from 1 here
SummaryOf(text, index) ==
    LET marker == Markers(text)[index]
        team_names == ExtractStatsTeamNames(text)
        \* the while loop over cursor, and header_entries.reverse(): the
        \* positions of the at most six nearest non-blank lines above the
        \* marker, in page order
        RECURSIVE HeaderWalk(_, _)
        HeaderWalk(cursor, room) ==
            IF cursor < 1 \/ room = 0 THEN <<>>
            ELSE IF text[cursor] # BlankLine
                 THEN Append(HeaderWalk(cursor - 1, room - 1), cursor)
                 ELSE HeaderWalk(cursor - 1, room)
        header_entries == HeaderWalk(marker - 1, 6)
        header_lines ==
            [k \in 1..Len(header_entries) |->
                 NormalizeStatsHeaderLine(text[header_entries[k]])]
        totals_candidates == TotalsCandidates(text, marker)
        \* re.search(r"\bPunkte\b", entry, re.IGNORECASE)
        HasPunkte(line) == Mentions(line, {"Punkte", "punkte", "PUNKTE"})
        HasNoPunkte(line) == ~HasPunkte(line)
        points_lines == SelectSeq(totals_candidates, HasPunkte)
        ordered_totals ==
            IF points_lines # <<>>
            THEN points_lines \o SelectSeq(totals_candidates, HasNoPunkte)
            ELSE totals_candidates
        RECURSIVE JoinLines(_)
        \* " ".join(ordered_totals), as tokens
        JoinLines(ls) == IF ls = <<>> THEN <<>> ELSE ls[1] \o JoinLines(Tail(ls))
        team_name ==
            IF index <= Len(team_names) THEN team_names[index]
            ELSE Concat("Team ", ToString(index))
        \* start_index = header_entries[-1][0] + 1 if header_entries else 0
        start_index ==
            IF header_entries # <<>> THEN header_entries[Len(header_entries)] + 1 ELSE 1
        \* raw_line.lower().startswith("libero")
        StartsWithLibero(line) ==
            line[1] \in {"Libero", "libero", "LIBERO", "Liberos", "Libero:"}
        RECURSIVE PlayerLinesFrom(_)
        \* for idx in range(start_index, marker)
        PlayerLinesFrom(idx) ==
            IF idx >= marker THEN <<>>
            ELSE IF text[idx] = BlankLine \/ StartsWithLibero(text[idx])
                 THEN PlayerLinesFrom(idx + 1)
                 ELSE <<text[idx]>> \o PlayerLinesFrom(idx + 1)
    IN  MatchStatsTotals(
            team_name,
            header_lines,
            NormalizeStatsTotalsLine(JoinLines(ordered_totals)),
            NoMetrics,
            ParseTeamPlayerLines(PlayerLinesFrom(start_index), team_name))

\* except PdfReadError / except Exception: return ()
ReturnOnUnreadable ==
    /\ page_pc = "start"
    /\ data.kind = "unreadable"
    /\ page_pc' = "done"
    /\ UNCHANGED <<data, marker_index, summaries, summary_markers>>
    /\ UNCHANGED <<mergeVars, parseVars, totalsVars, fetchVars, summaryVars, loaderVars>>

\* if not reader.pages: return ()
ReturnOnNoPages ==
    /\ page_pc = "start"
    /\ data.kind = "no pages"
    /\ page_pc' = "done"
    /\ UNCHANGED <<data, marker_index, summaries, summary_markers>>
    /\ UNCHANGED <<mergeVars, parseVars, totalsVars, fetchVars, summaryVars, loaderVars>>

\* reader.pages[0].extract_text() stands outside the try: what it raises
\* leaves the function
RaiseFromExtractText ==
    /\ page_pc = "start"
    /\ data.kind = "unextractable"
    /\ page_pc' = "raised"
    /\ UNCHANGED <<data, marker_index, summaries, summary_markers>>
    /\ UNCHANGED <<mergeVars, parseVars, totalsVars, fetchVars, summaryVars, loaderVars>>

\* if not lines: return ()
ReturnOnNoLines ==
    /\ page_pc = "start"
    /\ data.kind = "page"
    /\ data.text = <<>>
    /\ page_pc' = "done"
    /\ UNCHANGED <<data, marker_index, summaries, summary_markers>>
    /\ UNCHANGED <<mergeVars, parseVars, totalsVars, fetchVars, summaryVars, loaderVars>>

\* if not markers: return ()
ReturnOnNoMarkers ==
    /\ page_pc = "start"
    /\ data.kind = "page"
    /\ data.text # <<>>
    /\ Markers(data.text) = <<>>
    /\ page_pc' = "done"
    /\ UNCHANGED <<data, marker_index, summaries, summary_markers>>
    /\ UNCHANGED <<mergeVars, parseVars, totalsVars, fetchVars, summaryVars, loaderVars>>

\* the for loop over markers is entered
EnterMarkerLoop ==
    /\ page_pc = "start"
    /\ data.kind = "page"
    /\ Markers(data.text) # <<>>
    /\ page_pc' = "loop"
    /\ marker_index' = 1
    /\ UNCHANGED <<data, summaries, summary_markers>>
    /\ UNCHANGED <<mergeVars, parseVars, totalsVars, fetchVars, summaryVars, loaderVars>>

\* if not totals_candidates: continue
SkipMarker ==
    /\ page_pc = "loop"
    /\ marker_index <= Len(Markers(data.text))
    /\ TotalsCandidates(data.text, Markers(data.text)[marker_index]) = <<>>
    /\ marker_index' = marker_index + 1
    /\ UNCHANGED <<data, summaries, summary_markers, page_pc>>
    /\ UNCHANGED <<mergeVars, parseVars, totalsVars, fetchVars, summaryVars, loaderVars>>

\* summaries.append(MatchStatsTotals(...))
AppendSummary ==
    /\ page_pc = "loop"
    /\ marker_index <= Len(Markers(data.text))
    /\ TotalsCandidates(data.text, Markers(data.text)[marker_index]) # <<>>
    /\ summaries' = Append(summaries, SummaryOf(data.text, marker_index))
    /\ summary_markers' = Append(summary_markers, Markers(data.text)[marker_index])
    /\ marker_index' = marker_index + 1
    /\ UNCHANGED <<data, page_pc>>
    /\ UNCHANGED <<mergeVars, parseVars, totalsVars, fetchVars, summaryVars, loaderVars>>

\* return tuple(summaries)
ReturnSummaries ==
    /\ page_pc = "loop"
    /\ marker_index > Len(Markers(data.text))
    /\ page_pc' = "done"
    /\ UNCHANGED <<data, marker_index, summaries, summary_markers>>
    /\ UNCHANGED <<mergeVars, parseVars, totalsVars, fetchVars, summaryVars, loaderVars>>

NoPage ==
    /\ data = NoPages
    /\ marker_index = 1
    /\ summaries = <<>>
    /\ summary_markers = <<>>
    /\ page_pc = "idle"

(***************************************************************************)
(* fetch_match_stats_totals and _STATS_TOTALS_CACHE                        *)
(***************************************************************************)
MaxFetches == 3

Urls == {"u1", "u2"}

RECURSIVE SummariesFrom(_, _)
\* the summaries that the for loop over markers appends from index on
SummariesFrom(text, index) ==
    IF index > Len(Markers(text)) THEN <<>>
    ELSE IF TotalsCandidates(text, Markers(text)[index]) = <<>>
         THEN SummariesFrom(text, index + 1)
         ELSE <<SummaryOf(text, index)>> \o SummariesFrom(text, index + 1)

\* _parse_stats_totals_pdf(response.content) as a value, where it returns
ParseStatsTotalsPdf(content) ==
    IF content.kind # "page" THEN <<>> ELSE SummariesFrom(content.text, 1)

\* the first pages of two responses: two team lines, then the totals of
\* both teams or of the first team only
TwoTeamPage ==
    PageOf(<<<<"USC", "Münster", "3">>, <<"Dresdner", "SC", "1">>,
             MarkerLine, KeywordTotals, MarkerLine, GluedTotals>>)

OneTeamPage ==
    PageOf(<<<<"USC", "Münster", "3">>, <<"Dresdner", "SC", "1">>,
             MarkerLine, KeywordTotals>>)

\* normalize_name on the team names of the model
NormalizeName(name) ==
    CASE name = "USC Münster" -> "usc munster"
      [] name = "Dresdner SC" -> "dresdner sc"
      [] name = "VfB Suhl" -> "vfb suhl"
      [] name = "Suhl" -> "suhl"

\* a player of a manual entry, as _load_manual_stats_totals builds it
ManualPlayer ==
    [ team_name |-> "USC Münster", player_name |-> "Weißler Anna",
      jersey_number |-> SomeInt(10), metrics |-> ManualMetrics,
      total_points |-> SomeInt(4), break_points |-> SomeInt(3),
      plus_minus |-> SomeInt(1) ]

\* two of the tuples (keys, team_name, metrics, players) that
\* _load_manual_stats_totals builds
ManualUsc ==
    [ keys |-> <<"usc munster">>, team_name |-> "USC Münster",
      metrics |-> ManualMetrics, players |-> <<ManualPlayer>> ]

ManualSuhl ==
    [ keys |-> <<"vfb suhl">>, team_name |-> "VfB Suhl",
      metrics |-> ZeroMetrics, players |-> <<>> ]

NotCached == <<>>

\* a mutation of ManualSummary: the players of the manual entry are left out
ManualSummaryWithoutPlayers(manual_entry) ==
    MatchStatsTotals(manual_entry.team_name, <<>>, <<>>, <<manual_entry.metrics>>, <<>>)

\* MatchStatsTotals(...) of a manual entry that stands alone
ManualSummary(manual_entry) ==
    MatchStatsTotals(manual_entry.team_name, <<>>, <<>>, <<manual_entry.metrics>>,
                     manual_entry.players)

\* the tuple that the RequestException handler builds from the manual entries
ManualSummaries(manual_entries) ==
    [k \in 1..Len(manual_entries) |-> ManualSummary(manual_entries[k])]

\* the summaries of a response: the parsed ones, overridden by the manual
\* entries, then the manual entries that matched none
MergeManual(parsed, manual_entries) ==
    LET \* index_lookup.get(key): the last manual entry that has the key, or 0
        IndexLookup(key) ==
            LET having == { idx \in 1..Len(manual_entries) :
                                \E k \in 1..Len(manual_entries[idx].keys) :
                                    manual_entries[idx].keys[k] = key }
            IN  IF having = {} THEN 0
                ELSE CHOOSE idx \in having : \A other \in having : other <= idx
        \* the element of `updated` for one parsed summary
        Overridden(summary) ==
            LET match_idx == IndexLookup(NormalizeName(summary.team_name))
            IN  IF match_idx = 0 THEN summary
                ELSE MatchStatsTotals(
                         summary.team_name, summary.header_lines, summary.totals_line,
                         <<manual_entries[match_idx].metrics>>,
                         IF manual_entries[match_idx].players # <<>>
                         THEN manual_entries[match_idx].players
                         ELSE summary.players)
        matched_indices ==
            { IndexLookup(NormalizeName(parsed[k].team_name)) : k \in 1..Len(parsed) }
        RECURSIVE UnmatchedFrom(_)
        \* the manual entries that no parsed summary matched, in their order
        UnmatchedFrom(idx) ==
            IF idx > Len(manual_entries) THEN <<>>
            ELSE IF idx \in matched_indices THEN UnmatchedFrom(idx + 1)
            ELSE <<ManualSummary(manual_entries[idx])>> \o UnmatchedFrom(idx + 1)
    IN  IF manual_entries = <<>> THEN parsed
        ELSE [k \in 1..Len(parsed) |-> Overridden(parsed[k])] \o UnmatchedFrom(1)

\* what a call leaves behind for the caller; download tells what became of
\* its _http_get call: "none" (not called), "failed" (RequestException), "ok"
Returned(url, value, download) ==
    [url |-> url, outcome |-> "returned", value |-> value, download |-> download]

\* a mutation of IsCached: `if cached:` takes an empty tuple for no entry
IsCachedAndFilled(slot) == slot # NotCached /\ slot[1] # <<>>

\* cached is not None
IsCached(slot) == slot # NotCached

\* cached = _STATS_TOTALS_CACHE.get(stats_url); if cached is not None: return cached
ReturnCached ==
    /\ Len(returned) < MaxFetches
    /\ \E url \in Urls :
           /\ IsCached(cache[url])
           /\ returned' = Append(returned, Returned(url, cache[url][1], "none"))
    /\ UNCHANGED <<cache, requests, manual, calls>>
    /\ UNCHANGED <<mergeVars, parseVars, totalsVars, pageVars, summaryVars, loaderVars>>

\* _http_get raises requests.RequestException and manual entries exist
StoreManualOnError ==
    /\ Len(returned) < MaxFetches
    /\ \E url \in Urls :
           /\ ~IsCached(cache[url])
           /\ manual[url] # <<>>
           /\ requests' = [requests EXCEPT ![url] = @ + 1]
           /\ cache' = [cache EXCEPT ![url] = <<ManualSummaries(manual[url])>>]
           /\ returned' = Append(returned, Returned(url, ManualSummaries(manual[url]), "failed"))
    /\ UNCHANGED <<manual, calls>>
    /\ UNCHANGED <<mergeVars, parseVars, totalsVars, pageVars, summaryVars, loaderVars>>

\* _http_get raises requests.RequestException and there is no manual entry
StoreEmptyOnError ==
    /\ Len(returned) < MaxFetches
    /\ \E url \in Urls :
           /\ ~IsCached(cache[url])
           /\ manual[url] = <<>>
           /\ requests' = [requests EXCEPT ![url] = @ + 1]
           /\ cache' = [cache EXCEPT ![url] = <<<<>>>>]
           /\ returned' = Append(returned, Returned(url, <<>>, "failed"))
    /\ UNCHANGED <<manual, calls>>
    /\ UNCHANGED <<mergeVars, parseVars, totalsVars, pageVars, summaryVars, loaderVars>>

\* the response arrives and is parsed; manual entries override the result
StoreParsed ==
    /\ Len(returned) < MaxFetches
    /\ \E url \in Urls, content \in {Unreadable, OneTeamPage, TwoTeamPage} :
           /\ ~IsCached(cache[url])
           /\ requests' = [requests EXCEPT ![url] = @ + 1]
           /\ cache' = [cache EXCEPT
                  ![url] = <<MergeManual(ParseStatsTotalsPdf(content), manual[url])>>]
           /\ returned' =
                  Append(returned,
                         Returned(url, MergeManual(ParseStatsTotalsPdf(content), manual[url]),
                                  "ok"))
    /\ UNCHANGED <<manual, calls>>
    /\ UNCHANGED <<mergeVars, parseVars, totalsVars, pageVars, summaryVars, loaderVars>>

\* the response arrives and _parse_stats_totals_pdf is replaced by a function
\* that returns a given tuple, as monkeypatch.setattr does in
\* test_fetch_match_stats_totals_prefers_parsed_player_metrics: the summaries
\* of one or two teams, with or without the player of MalmLine
StoreStubbedParse ==
    /\ Len(returned) < MaxFetches
    /\ \E url \in Urls,
          parsed \in
              LET Summary(team_name, ls) ==
                      MatchStatsTotals(team_name, <<>>, <<>>, NoMetrics,
                                       ParseTeamPlayerLines(ls, team_name))
              IN  { <<>>,
                    <<Summary("USC Münster", <<MalmLine>>)>>,
                    <<Summary("USC Münster", <<>>)>>,
                    <<Summary("Dresdner SC", <<MalmLine>>)>>,
                    <<Summary("Dresdner SC", <<MalmLine>>),
                      Summary("USC Münster", <<MalmLine>>)>> } :
           /\ ~IsCached(cache[url])
           /\ requests' = [requests EXCEPT ![url] = @ + 1]
           /\ cache' = [cache EXCEPT ![url] = <<MergeManual(parsed, manual[url])>>]
           /\ returned' =
                  Append(returned,
                         [ url |-> url, outcome |-> "returned",
                           value |-> MergeManual(parsed, manual[url]),
                           download |-> "ok", parsed |-> parsed ])
    /\ UNCHANGED <<manual, calls>>
    /\ UNCHANGED <<mergeVars, parseVars, totalsVars, pageVars, summaryVars, loaderVars>>

\* the response arrives and extract_text raises inside _parse_stats_totals_pdf
RaiseFromParse ==
    /\ Len(returned) < MaxFetches
    /\ \E url \in Urls :
           /\ ~IsCached(cache[url])
           /\ requests' = [requests EXCEPT ![url] = @ + 1]
           /\ returned' = Append(returned, [url |-> url, outcome |-> "raised", value |-> <<>>, download |-> "ok"])
    /\ UNCHANGED <<cache, manual, calls>>
    /\ UNCHANGED <<mergeVars, parseVars, totalsVars, pageVars, summaryVars, loaderVars>>

(***************************************************************************)
(* fetch_match_stats_totals called by several callers side by side.  The   *)
(* cache is a plain dict without a lock: a call reads it at its first      *)
(* statement and writes it at its last, and other calls run in between     *)
(* while it waits for _http_get.                                           *)
(***************************************************************************)
MaxCallers == 2

\* cached is not None: return cached
CallReturnsCached ==
    \E c \in DOMAIN calls :
        /\ calls[c].pc = "start"
        /\ IsCached(cache[calls[c].stats_url])
        /\ calls' = [calls EXCEPT ![c].pc = "returned",
                                  ![c].value = cache[calls[c].stats_url][1]]
        /\ UNCHANGED <<cache, requests, manual, returned>>
        /\ UNCHANGED <<mergeVars, parseVars, totalsVars, pageVars, summaryVars, loaderVars>>

\* cached is None: the manual entries are looked up and _http_get is called
CallRequests ==
    \E c \in DOMAIN calls :
        /\ calls[c].pc = "start"
        /\ ~IsCached(cache[calls[c].stats_url])
        /\ calls' = [calls EXCEPT ![c].pc = "requesting",
                                  ![c].manual_entries = manual[calls[c].stats_url]]
        /\ requests' = [requests EXCEPT ![calls[c].stats_url] = @ + 1]
        /\ UNCHANGED <<cache, manual, returned>>
        /\ UNCHANGED <<mergeVars, parseVars, totalsVars, pageVars, summaryVars, loaderVars>>

\* _http_get raises requests.RequestException: the manual summaries, or (),
\* are stored and returned
CallStoresOnError ==
    \E c \in DOMAIN calls :
        LET stored == IF calls[c].manual_entries # <<>>
                      THEN ManualSummaries(calls[c].manual_entries)
                      ELSE <<>>
        IN  /\ calls[c].pc = "requesting"
            /\ cache' = [cache EXCEPT ![calls[c].stats_url] = <<stored>>]
            /\ calls' = [calls EXCEPT ![c].pc = "returned",
                                      ![c].response = [kind |-> "RequestException", text |-> <<>>],
                                      ![c].value = stored]
            /\ UNCHANGED <<requests, manual, returned>>
            /\ UNCHANGED <<mergeVars, parseVars, totalsVars, pageVars, summaryVars, loaderVars>>

\* the response arrives and is parsed; manual entries override the result,
\* which is stored and returned
CallStoresParsed ==
    \E c \in DOMAIN calls, content \in {Unreadable, OneTeamPage, TwoTeamPage} :
        LET stored == MergeManual(ParseStatsTotalsPdf(content), calls[c].manual_entries)
        IN  /\ calls[c].pc = "requesting"
            /\ cache' = [cache EXCEPT ![calls[c].stats_url] = <<stored>>]
            /\ calls' = [calls EXCEPT ![c].pc = "returned",
                                      ![c].response = content,
                                      ![c].value = stored]
            /\ UNCHANGED <<requests, manual, returned>>
            /\ UNCHANGED <<mergeVars, parseVars, totalsVars, pageVars, summaryVars, loaderVars>>

\* the response arrives and extract_text raises inside _parse_stats_totals_pdf
CallRaisesFromParse ==
    \E c \in DOMAIN calls :
        /\ calls[c].pc = "requesting"
        /\ calls' = [calls EXCEPT ![c].pc = "raised", ![c].response = Unextractable]
        /\ UNCHANGED <<cache, requests, manual, returned>>
        /\ UNCHANGED <<mergeVars, parseVars, totalsVars, pageVars, summaryVars, loaderVars>>

NoFetch ==
    /\ cache = [url \in Urls |-> NotCached]
    /\ requests = [url \in Urls |-> 0]
    /\ manual = [url \in Urls |-> <<>>]
    /\ returned = <<>>
    /\ calls = <<>>

(***************************************************************************)
(* summarize_metrics (stats.py): the totals of several matches.            *)
(***************************************************************************)
MaxEntries == 3

\* summarize_metrics; <<>> is its None
SummarizeMetrics(items) ==
    LET RECURSIVE Sum(_, _)
        \* sum(item.<field> for item in entries)
        Sum(field, k) == IF k = 0 THEN 0 ELSE items[k][field] + Sum(field, k - 1)
        \* _parse_percentage: float() of the text without "%", or None
        ParsePercentage(value) ==
            CASE value = "" -> <<>>
              [] value \in PctStrings -> <<PctStringValue[value]>>
              [] value \in IntTokens -> <<IntTokenValue[value]>>
              [] OTHER -> <<>>
        \* the entries that _weighted_percentage counts
        Counted(attempts_attr, pct_attr) ==
            { k \in 1..Len(items) :
                /\ items[k][attempts_attr] # 0
                /\ ParsePercentage(items[k][pct_attr]) # <<>> }
        RECURSIVE Weighted(_, _, _, _)
        \* total_attempts and weighted_sum after the first k entries
        Weighted(attempts_attr, pct_attr, k, weigh) ==
            IF k = 0 THEN 0
            ELSE Weighted(attempts_attr, pct_attr, k - 1, weigh)
                 + ( IF k \notin Counted(attempts_attr, pct_attr) THEN 0
                     ELSE IF weigh
                     THEN items[k][attempts_attr] * ParsePercentage(items[k][pct_attr])[1]
                     ELSE items[k][attempts_attr] )
        \* round(weighted_sum / total_attempts): Python rounds halves to even
        RoundQuotient(n, d) ==
            LET q == n \div d
                r == n % d
            IN  IF 2 * r > d THEN q + 1
                ELSE IF 2 * r < d THEN q
                ELSE IF q % 2 = 0 THEN q ELSE q + 1
        \* _weighted_percentage; <<>> is its None
        WeightedPercentage(attempts_attr, pct_attr) ==
            LET total_attempts == Weighted(attempts_attr, pct_attr, Len(items), FALSE)
                weighted_sum == Weighted(attempts_attr, pct_attr, Len(items), TRUE)
            IN  IF total_attempts = 0 THEN <<>>
                ELSE <<Concat(ToString(RoundQuotient(weighted_sum, total_attempts)), "%")>>
    IN  IF items = <<>> THEN <<>>
        ELSE << [ serves_attempts |-> Sum("serves_attempts", Len(items)),
                  serves_errors |-> Sum("serves_errors", Len(items)),
                  serves_points |-> Sum("serves_points", Len(items)),
                  receptions_attempts |-> Sum("receptions_attempts", Len(items)),
                  receptions_errors |-> Sum("receptions_errors", Len(items)),
                  receptions_positive |-> Sum("receptions_positive", Len(items)),
                  receptions_perfect |-> Sum("receptions_perfect", Len(items)),
                  receptions_positive_pct |->
                      WeightedPercentage("receptions_attempts", "receptions_positive_pct"),
                  receptions_perfect_pct |->
                      WeightedPercentage("receptions_attempts", "receptions_perfect_pct"),
                  attacks_attempts |-> Sum("attacks_attempts", Len(items)),
                  attacks_errors |-> Sum("attacks_errors", Len(items)),
                  attacks_blocked |-> Sum("attacks_blocked", Len(items)),
                  attacks_points |-> Sum("attacks_points", Len(items)),
                  attacks_success_pct |->
                      WeightedPercentage("attacks_attempts", "attacks_success_pct"),
                  blocks_points |-> Sum("blocks_points", Len(items)) ] >>

\* the two matches of test_summarize_metrics_prefers_counts_for_percentages
EntryOne ==
    [ serves_attempts |-> 5, serves_errors |-> 1, serves_points |-> 2,
      receptions_attempts |-> 10, receptions_errors |-> 2,
      receptions_positive_pct |-> "10%", receptions_perfect_pct |-> "5%",
      receptions_positive |-> 7, receptions_perfect |-> 3,
      attacks_attempts |-> 20, attacks_errors |-> 4, attacks_blocked |-> 1,
      attacks_points |-> 11, attacks_success_pct |-> "30%", blocks_points |-> 2 ]

EntryTwo ==
    [ serves_attempts |-> 4, serves_errors |-> 0, serves_points |-> 1,
      receptions_attempts |-> 10, receptions_errors |-> 1,
      receptions_positive_pct |-> "15%", receptions_perfect_pct |-> "8%",
      receptions_positive |-> 5, receptions_perfect |-> 2,
      attacks_attempts |-> 15, attacks_errors |-> 3, attacks_blocked |-> 2,
      attacks_points |-> 9, attacks_success_pct |-> "25%", blocks_points |-> 1 ]

\* the lists summarize_metrics is called with: the matches of the test, a
\* match without any action, the metrics the player parser builds from
\* MalmLine, and a match whose percentages are blank
SummaryInputs ==
    LET metrics ==
            { EntryOne, EntryTwo, ZeroMetrics,
              ParsePlayerStatsLine(MalmLine)[1].metrics,
              [EntryTwo EXCEPT !.receptions_positive_pct = "",
                               !.receptions_perfect_pct = "",
                               !.attacks_success_pct = ""] }
    IN  UNION {[1..n -> metrics] : n \in 0..MaxEntries}

\* summarize_metrics(entries) returns
Summarize ==
    /\ Len(aggregated) < 1
    /\ aggregated' = Append(aggregated, SummarizeMetrics(entries))
    /\ UNCHANGED <<entries, mergeVars, parseVars, totalsVars, pageVars, fetchVars, loaderVars>>

(***************************************************************************)
(* _load_manual_stats_totals: the manual totals of the payload.  A value   *)
(* of the payload is a record tagged with its Python type: None            *)
(* ("null"), int, str, list (items) or dict (fields).                      *)
(***************************************************************************)
MaxMatches == 2

\* the body of the loop over matches for one match_entry: "skip" (continue,
\* or no team was loaded), "store" (manual[stats_url] = teams_entries) or
\* "raise" (an exception leaves _load_manual_stats_totals)
LoadMatchEntry(match_entry) ==
    LET NoneValue == [kind |-> "null"]
        EmptyDict == [kind |-> "dict", fields |-> <<>>]
        \* bool(value)
        Truthy(v) ==
            CASE v.kind = "null" -> FALSE
              [] v.kind = "int" -> v.int # 0
              [] v.kind = "str" -> v.str # ""
              [] v.kind = "list" -> v.items # <<>>
              [] v.kind = "dict" -> DOMAIN v.fields # {}
        \* mapping.get(key, default)
        Get(mapping, key, default) ==
            IF key \in DOMAIN mapping.fields THEN mapping.fields[key] ELSE default
        \* int(value): <<n>>, or <<>> where it raises TypeError or ValueError
        IntOf(v) ==
            CASE v.kind = "int" -> <<v.int>>
              [] v.kind = "str" -> IF HasNumber(v.str) THEN <<NumberOf(v.str)>> ELSE <<>>
              [] OTHER -> <<>>
        \* str(value)
        StrOf(v) ==
            CASE v.kind = "str" -> v.str
              [] v.kind = "int" -> ToString(v.int)
              [] v.kind = "null" -> "None"
        \* int(section[key]): <<>> also where section[key] raises KeyError
        \* or TypeError
        Required(section, key) ==
            IF section.kind = "dict" /\ key \in DOMAIN section.fields
            THEN IntOf(section.fields[key])
            ELSE <<>>
        HasField(section, key) == section.kind = "dict" /\ key \in DOMAIN section.fields
        \* value or {} / value or []
        OrElse(v, default) == IF Truthy(v) THEN v ELSE default
        \* pretty_name(str(player_name)) on the names of the model
        PrettyNameOf(name) ==
            CASE name = "MALM Cecilia" -> PrettyName(<<"MALM", "Cecilia">>)
              [] name = "Weiler Anna" -> PrettyName(<<"Weiler", "Anna">>)
        \* the body of the loop over players: "skip", "raise" or "player"
        LoadPlayer(player_entry, name) ==
            IF player_entry.kind # "dict" THEN [outcome |-> "skip"]
            ELSE IF ~Truthy(Get(player_entry, "name", NoneValue)) THEN [outcome |-> "skip"]
            ELSE
            LET player_name == Get(player_entry, "name", NoneValue)
                metrics_payload == OrElse(Get(player_entry, "metrics", NoneValue), EmptyDict)
                Count(key) == IntOf(Get(metrics_payload, key, [kind |-> "int", int |-> 0]))
                Pct(key) == StrOf(Get(metrics_payload, key, [kind |-> "str", str |-> "0%"]))
                counts == { "receptions_attempts", "serves_attempts", "serves_errors",
                            "serves_points", "receptions_errors", "attacks_attempts",
                            "attacks_errors", "attacks_blocked", "attacks_points",
                            "blocks_points" }
                Optional(key) ==
                    IF Get(player_entry, key, NoneValue).kind = "null" THEN NoInt
                    ELSE IntOf(Get(player_entry, key, NoneValue))
            IN  \* metrics_payload.get: AttributeError, which no except names
                IF metrics_payload.kind # "dict" THEN [outcome |-> "raise"]
                ELSE IF \E key \in counts : Count(key) = <<>> THEN [outcome |-> "skip"]
                ELSE [ outcome |-> "player",
                       player |->
                         [ team_name |-> StrOf(name),
                           player_name |-> PrettyNameOf(StrOf(player_name)),
                           jersey_number |-> Optional("jersey_number"),
                           metrics |->
                             [ serves_attempts |-> Count("serves_attempts")[1],
                               serves_errors |-> Count("serves_errors")[1],
                               serves_points |-> Count("serves_points")[1],
                               receptions_attempts |-> Count("receptions_attempts")[1],
                               receptions_errors |-> Count("receptions_errors")[1],
                               receptions_positive_pct |-> Pct("receptions_positive_pct"),
                               receptions_perfect_pct |-> Pct("receptions_perfect_pct"),
                               receptions_positive |->
                                   ComputePercentageCount(Count("receptions_attempts")[1],
                                                          Pct("receptions_positive_pct")),
                               receptions_perfect |->
                                   ComputePercentageCount(Count("receptions_attempts")[1],
                                                          Pct("receptions_perfect_pct")),
                               attacks_attempts |-> Count("attacks_attempts")[1],
                               attacks_errors |-> Count("attacks_errors")[1],
                               attacks_blocked |-> Count("attacks_blocked")[1],
                               attacks_points |-> Count("attacks_points")[1],
                               attacks_success_pct |-> Pct("attacks_success_pct"),
                               blocks_points |-> Count("blocks_points")[1] ],
                           total_points |-> Optional("total_points"),
                           break_points |->
                               ParseOptionalIntToken(
                                   StrOf(Get(metrics_payload, "break_points",
                                             [kind |-> "str", str |-> "0"]))),
                           plus_minus |->
                               ParseOptionalIntToken(
                                   StrOf(Get(metrics_payload, "plus_minus",
                                             [kind |-> "str", str |-> "0"]))) ] ]
        \* the body of the loop over teams: "skip", "raise" or "team"
        LoadTeam(team_entry) ==
            IF team_entry.kind # "dict" THEN [outcome |-> "skip"]
            ELSE IF ~Truthy(Get(team_entry, "name", NoneValue)) THEN [outcome |-> "skip"]
            ELSE
            LET name == Get(team_entry, "name", NoneValue)
                serve == OrElse(Get(team_entry, "serve", NoneValue), EmptyDict)
                reception == OrElse(Get(team_entry, "reception", NoneValue), EmptyDict)
                attack == OrElse(Get(team_entry, "attack", NoneValue), EmptyDict)
                block == OrElse(Get(team_entry, "block", NoneValue), EmptyDict)
                \* except (KeyError, TypeError, ValueError): continue
                caught ==
                    \/ \E key \in {"attempts", "errors", "points"} : Required(serve, key) = <<>>
                    \/ \E key \in {"attempts", "errors"} : Required(reception, key) = <<>>
                    \/ \E key \in {"positive_pct", "perfect_pct"} : ~HasField(reception, key)
                    \/ \E key \in {"attempts", "errors", "blocked", "points"} :
                           Required(attack, key) = <<>>
                    \/ ~HasField(attack, "success_pct")
                    \/ Required(block, "points") = <<>>
                players_payload == OrElse(Get(team_entry, "players", NoneValue),
                                          [kind |-> "list", items |-> <<>>])
                \* the elements of a str or of the keys of a dict are no dicts
                player_entries == IF players_payload.kind = "list"
                                  THEN players_payload.items ELSE <<>>
                loaded_players ==
                    [k \in 1..Len(player_entries) |->
                        LoadPlayer(player_entries[k], name)]
                IsPlayer(result) == result.outcome = "player"
                aliases == OrElse(Get(team_entry, "aliases", NoneValue),
                                  [kind |-> "list", items |-> <<>>])
                \* normalize_name(str(alias).strip()), "" for a blank alias
                AliasKey(k) ==
                    IF StrOf(aliases.items[k]) = "" THEN ""
                    ELSE NormalizeName(StrOf(aliases.items[k]))
                IsNewKey(k) ==
                    /\ AliasKey(k) # ""
                    /\ AliasKey(k) # NormalizeName(name.str)
                    /\ \A j \in 1..(k - 1) : AliasKey(j) # AliasKey(k)
                new_keys == SelectSeq([k \in 1..Len(aliases.items) |-> k], IsNewKey)
            IN  IF caught THEN [outcome |-> "skip"]
                \* for player_entry in 5: TypeError outside every try
                ELSE IF players_payload.kind = "int" THEN [outcome |-> "raise"]
                ELSE IF \E k \in 1..Len(loaded_players) : loaded_players[k].outcome = "raise"
                THEN [outcome |-> "raise"]
                \* normalize_name(5): AttributeError outside every try
                ELSE IF name.kind # "str" THEN [outcome |-> "raise"]
                \* for alias in 5: TypeError outside every try
                ELSE IF aliases.kind # "list" THEN [outcome |-> "raise"]
                ELSE [ outcome |-> "team",
                       team |->
                         [ keys |-> <<NormalizeName(name.str)>>
                                    \o [k \in 1..Len(new_keys) |-> AliasKey(new_keys[k])],
                           team_name |-> name.str,
                           metrics |->
                             [ serves_attempts |-> Required(serve, "attempts")[1],
                               serves_errors |-> Required(serve, "errors")[1],
                               serves_points |-> Required(serve, "points")[1],
                               receptions_attempts |-> Required(reception, "attempts")[1],
                               receptions_errors |-> Required(reception, "errors")[1],
                               receptions_positive_pct |-> StrOf(reception.fields.positive_pct),
                               receptions_perfect_pct |-> StrOf(reception.fields.perfect_pct),
                               receptions_positive |->
                                   ComputePercentageCount(Required(reception, "attempts")[1],
                                                          StrOf(reception.fields.positive_pct)),
                               receptions_perfect |->
                                   ComputePercentageCount(Required(reception, "attempts")[1],
                                                          StrOf(reception.fields.perfect_pct)),
                               attacks_attempts |-> Required(attack, "attempts")[1],
                               attacks_errors |-> Required(attack, "errors")[1],
                               attacks_blocked |-> Required(attack, "blocked")[1],
                               attacks_points |-> Required(attack, "points")[1],
                               attacks_success_pct |-> StrOf(attack.fields.success_pct),
                               blocks_points |-> Required(block, "points")[1] ],
                           players |->
                               LET kept == SelectSeq(loaded_players, IsPlayer)
                               IN  [k \in 1..Len(kept) |-> kept[k].player] ] ]
    IN  IF match_entry.kind # "dict" THEN [outcome |-> "skip"]
        ELSE IF ~Truthy(Get(match_entry, "stats_url", NoneValue)) THEN [outcome |-> "skip"]
        ELSE
        LET teams == OrElse(Get(match_entry, "teams", [kind |-> "list", items |-> <<>>]),
                            [kind |-> "list", items |-> <<>>])
            \* the elements of a str or of the keys of a dict are no dicts
            team_entries == IF teams.kind = "list" THEN teams.items ELSE <<>>
            loaded_teams == [k \in 1..Len(team_entries) |-> LoadTeam(team_entries[k])]
            IsTeam(result) == result.outcome = "team"
            kept == SelectSeq(loaded_teams, IsTeam)
        IN  \* for team_entry in 5: TypeError outside every try
            IF teams.kind = "int" THEN [outcome |-> "raise"]
            ELSE IF \E k \in 1..Len(loaded_teams) : loaded_teams[k].outcome = "raise"
            THEN [outcome |-> "raise"]
            ELSE IF kept = <<>> THEN [outcome |-> "skip"]
            ELSE [ outcome |-> "store",
                   stats_url |-> Get(match_entry, "stats_url", NoneValue).str,
                   teams_entries |-> [k \in 1..Len(kept) |-> kept[k].team] ]

\* the match entries of the payloads: well-formed ones, and ones in which a
\* match, a team or a player lacks a key or holds a value of another type
ManualPayloads ==
    LET Number(n) == [kind |-> "int", int |-> n]
        Text(text) == [kind |-> "str", str |-> text]
        List(items) == [kind |-> "list", items |-> items]
        Dict(fields) == [kind |-> "dict", fields |-> fields]
        serve == Dict([attempts |-> Number(6), errors |-> Number(3), points |-> Number(0)])
        reception == Dict([attempts |-> Number(10), errors |-> Number(0),
                           positive_pct |-> Text("40%"), perfect_pct |-> Text("20%")])
        attack == Dict([attempts |-> Number(3), errors |-> Number(0), blocked |-> Number(0),
                        points |-> Number(2), success_pct |-> Text("33%")])
        block == Dict([points |-> Number(2)])
        Team(name, its_players) ==
            Dict([name |-> name, serve |-> serve, reception |-> reception,
                  attack |-> attack, block |-> block, players |-> its_players])
        Match(stats_url, teams) == Dict([stats_url |-> Text(stats_url), teams |-> teams])
        malm == Dict([name |-> Text("MALM Cecilia"), jersey_number |-> Number(5),
                      total_points |-> Number(6),
                      metrics |-> Dict([serves_attempts |-> Number(13),
                                        receptions_attempts |-> Number(10),
                                        receptions_positive_pct |-> Text("40%"),
                                        break_points |-> Number(4), plus_minus |-> Number(2)])])
        weiler == Dict([name |-> Text("Weiler Anna")])
        usc == Team(Text("USC Münster"), List(<<malm>>))
        suhl == Dict([name |-> Text("VfB Suhl"), aliases |-> List(<<Text("Suhl")>>),
                      serve |-> serve, reception |-> reception, attack |-> attack,
                      block |-> block])
        \* teams that lack a key or hold a text where a number belongs
        no_name == Dict([serve |-> serve, reception |-> reception, attack |-> attack,
                         block |-> block])
        no_points == Team(Text("Dresdner SC"), List(<<>>)).fields
        missing_key ==
            Dict([no_points EXCEPT !.serve = Dict([attempts |-> Number(6), errors |-> Number(3)])])
        text_value ==
            Dict([no_points EXCEPT !.serve = Dict([attempts |-> Text("x"), errors |-> Number(3),
                                                   points |-> Number(0)])])
        section_is_text == Dict([no_points EXCEPT !.attack = Text("n/a")])
        \* players that are no dict, lack the name, or hold a text for a count
        no_player_name == Dict([metrics |-> Dict([serves_attempts |-> Number(1)])])
        text_count == Dict([name |-> Text("Weiler Anna"),
                            metrics |-> Dict([serves_attempts |-> Text("x")])])
        metrics_is_text == Dict([name |-> Text("Weiler Anna"), metrics |-> Text("n/a")])
        entries_of_matches ==
            { Match("u1", List(<<usc>>)),
              Match("u2", List(<<Number(7), suhl, no_name, missing_key, text_value,
                                 section_is_text>>)),
              Match("u2", List(<<Team(Text("USC Münster"),
                                      List(<<Number(7), no_player_name, text_count, malm,
                                             weiler>>))>>)),
              Number(7),
              Dict([teams |-> List(<<usc>>)]),
              Match("u1", List(<<missing_key>>)),
              Match("u1", Number(5)),
              Match("u1", List(<<Team(Text("USC Münster"), Number(5)), suhl>>)),
              Match("u1", List(<<Team(Text("USC Münster"), List(<<metrics_is_text, malm>>))>>)),
              Match("u1", List(<<Team(Number(5), List(<<>>)), suhl>>)),
              Match("u1", List(<<Dict([no_points EXCEPT !.players = Number(0)] @@
                                      [aliases |-> Number(5)]), suhl>>)) }
    IN  UNION {[1..n -> entries_of_matches] : n \in 0..MaxMatches}

\* for match_entry in matches: the body ends in a continue, or no team of
\* the entry was loaded
SkipMatchEntry ==
    /\ load_pc = "loop"
    /\ match_index <= Len(payload)
    /\ LoadMatchEntry(payload[match_index]).outcome = "skip"
    /\ match_index' = match_index + 1
    /\ UNCHANGED <<payload, load_pc, manual, cache, requests, returned, calls>>
    /\ UNCHANGED <<mergeVars, parseVars, totalsVars, pageVars, summaryVars>>

\* manual[stats_url] = teams_entries
StoreMatchEntry ==
    /\ load_pc = "loop"
    /\ match_index <= Len(payload)
    /\ LoadMatchEntry(payload[match_index]).outcome = "store"
    /\ manual' = [manual EXCEPT ![LoadMatchEntry(payload[match_index]).stats_url] =
                                    LoadMatchEntry(payload[match_index]).teams_entries]
    /\ match_index' = match_index + 1
    /\ UNCHANGED <<payload, load_pc, cache, requests, returned, calls>>
    /\ UNCHANGED <<mergeVars, parseVars, totalsVars, pageVars, summaryVars>>

\* an exception that no except clause names leaves the function
RaiseFromMatchEntry ==
    /\ load_pc = "loop"
    /\ match_index <= Len(payload)
    /\ LoadMatchEntry(payload[match_index]).outcome = "raise"
    /\ load_pc' = "raised"
    /\ UNCHANGED <<payload, match_index, manual, cache, requests, returned, calls>>
    /\ UNCHANGED <<mergeVars, parseVars, totalsVars, pageVars, summaryVars>>

\* _MANUAL_STATS_TOTALS = manual; return manual
ReturnManual ==
    /\ load_pc = "loop"
    /\ match_index > Len(payload)
    /\ load_pc' = "returned"
    /\ UNCHANGED <<payload, match_index, manual, cache, requests, returned, calls>>
    /\ UNCHANGED <<mergeVars, parseVars, totalsVars, pageVars, summaryVars>>

NoLoader ==
    /\ payload = <<>>
    /\ match_index = 1
    /\ load_pc = "idle"

NoSummary ==
    /\ entries = <<>>
    /\ aggregated = <<>>

NoStats == NoTotals /\ NoPage /\ NoFetch /\ NoSummary /\ NoLoader

InitMerge ==
    /\ rows = <<>>
    /\ last_call = NoCall
    /\ manual_held = {}

\* no team block is being parsed while records are folded
NoParse ==
    /\ lines = <<>>
    /\ pos = 1
    /\ pending = NoPending
    /\ players = <<>>
    /\ emitted = <<>>
    /\ pc = "done"

Init == InitMerge /\ NoParse /\ NoStats

\* _parse_team_player_lines is entered with the lines of one team block
InitLines ==
    /\ InitMerge /\ NoStats
    /\ lines \in LineInputs
    /\ pos = 1
    /\ pending = NoPending
    /\ players = <<>>
    /\ emitted = <<>>
    /\ pc = "loop"

\* _parse_team_player_lines is entered with lines that hold few value tokens
InitTokens ==
    /\ InitMerge /\ NoStats
    /\ lines \in TokenLineInputs
    /\ pos = 1
    /\ pending = NoPending
    /\ players = <<>>
    /\ emitted = <<>>
    /\ pc = "loop"

NextMerge == MergePdfRow \/ MergeCsvRow

NextKey == MergeKeyedPdfRow \/ MergeKeyedCsvRow

NextParse ==
    \/ SkipBlankLine \/ ResetOnHeading
    \/ EmitCombined \/ EmitAlone \/ ExtendPending \/ ReplacePending
    \/ EmitLine \/ BufferLine
    \/ ReturnPlayers

\* export_combined_player_stats folding records that report one match
SpecMerge == Init /\ [][NextMerge]_vars

\* export_combined_player_stats folding records that identify matches differently
SpecKey == Init /\ [][NextKey]_vars

\* _parse_team_player_lines reading one team block
SpecParse == InitLines /\ [][NextParse]_vars

\* _parse_team_player_lines reading lines that hold few value tokens
SpecTokens == InitTokens /\ [][NextParse]_vars

\* resolve_match_stats_metrics is called with one entry
InitResolve ==
    /\ InitMerge /\ NoParse /\ NoPage /\ NoFetch /\ NoSummary /\ NoLoader
    /\ entry \in TotalsEntries
    /\ resolved = <<>>

NextTotals == Resolve

\* resolve_match_stats_metrics is applied to one entry, more than once
SpecTotals == InitResolve /\ [][NextTotals]_vars

\* _parse_stats_totals_pdf is entered with the bytes of one response
InitPdf ==
    /\ InitMerge /\ NoParse /\ NoTotals /\ NoFetch /\ NoSummary /\ NoLoader
    /\ data \in PageInputs
    /\ marker_index = 1
    /\ summaries = <<>>
    /\ summary_markers = <<>>
    /\ page_pc = "start"

NextPage ==
    \/ ReturnOnUnreadable \/ ReturnOnNoPages \/ RaiseFromExtractText
    \/ ReturnOnNoLines \/ ReturnOnNoMarkers
    \/ EnterMarkerLoop \/ SkipMarker \/ AppendSummary \/ ReturnSummaries

\* _parse_stats_totals_pdf runs once on one response
SpecPage == InitPdf /\ [][NextPage]_vars

\* a process starts: the cache is empty, the manual entries are fixed
InitProcess ==
    /\ InitMerge /\ NoParse /\ NoTotals /\ NoPage /\ NoSummary /\ NoLoader
    /\ cache = [url \in Urls |-> NotCached]
    /\ requests = [url \in Urls |-> 0]
    /\ manual \in [Urls -> {<<>>, <<ManualUsc>>, <<ManualUsc, ManualSuhl>>}]
    /\ returned = <<>>
    /\ calls = <<>>

NextFetch ==
    \/ ReturnCached \/ StoreManualOnError \/ StoreEmptyOnError
    \/ StoreParsed \/ RaiseFromParse

\* fetch_match_stats_totals is called several times in one process
SpecFetch == InitProcess /\ [][NextFetch]_vars

NextStub ==
    \/ ReturnCached \/ StoreManualOnError \/ StoreEmptyOnError \/ StoreStubbedParse

\* fetch_match_stats_totals is called several times while a test has replaced
\* _parse_stats_totals_pdf
SpecStub == InitProcess /\ [][NextStub]_vars

\* a process starts and several callers enter fetch_match_stats_totals
InitRace ==
    /\ InitMerge /\ NoParse /\ NoTotals /\ NoPage /\ NoSummary /\ NoLoader
    /\ cache = [url \in Urls |-> NotCached]
    /\ requests = [url \in Urls |-> 0]
    /\ manual \in [Urls -> {<<>>, <<ManualUsc>>, <<ManualUsc, ManualSuhl>>}]
    /\ returned = <<>>
    /\ calls \in [1..MaxCallers ->
                     { [stats_url |-> url, pc |-> "start", manual_entries |-> <<>>,
                        response |-> [kind |-> "none", text |-> <<>>], value |-> <<>>] :
                       url \in Urls }]

NextRace ==
    \/ CallReturnsCached \/ CallRequests \/ CallStoresOnError
    \/ CallStoresParsed \/ CallRaisesFromParse

\* fetch_match_stats_totals is called by several callers whose steps interleave
SpecRace == InitRace /\ [][NextRace]_vars

\* summarize_metrics is called with the metrics of some matches
InitSummary ==
    /\ InitMerge /\ NoParse /\ NoTotals /\ NoPage /\ NoFetch /\ NoLoader
    /\ entries \in SummaryInputs
    /\ aggregated = <<>>

NextSummary == Summarize

\* summarize_metrics is applied to one list of entries
SpecSummary == InitSummary /\ [][NextSummary]_vars

\* _load_manual_stats_totals is called for the first time
InitLoad ==
    /\ InitMerge /\ NoParse /\ NoTotals /\ NoPage /\ NoSummary
    /\ cache = [url \in Urls |-> NotCached]
    /\ requests = [url \in Urls |-> 0]
    /\ manual = [url \in Urls |-> <<>>]
    /\ returned = <<>>
    /\ calls = <<>>
    /\ payload \in ManualPayloads
    /\ match_index = 1
    /\ load_pc = "loop"

NextLoad == SkipMatchEntry \/ StoreMatchEntry \/ RaiseFromMatchEntry \/ ReturnManual

\* _load_manual_stats_totals reads one payload
SpecLoad == InitLoad /\ [][NextLoad]_vars

(***************************************************************************)
(* Claims about _merge_row and _serialise_rows                             *)
(***************************************************************************)
RowIndexes == 1..Len(rows)

RowState(i) == rows[i].state

BothRecorded(state, f) ==
    /\ state.field_values_by_source[f]["pdf"] # None
    /\ state.field_values_by_source[f]["csv"] # None

\* C1: a call of _merge_row on an existing row replaces the stored value of a
\* field the record supplies (non-None) exactly when the stored value is None
\* or the source's priority is strictly greater than the recorded priority;
\* on equal priority the stored (first-seen) value stays.
C1_MergeRule ==
    [][ LET values == last_call'.values
            priority == SOURCE_PRIORITY[last_call'.source]
            key == RowKey(values)
        IN  HasKey(rows, key) =>
              \A f \in Fields :
                values[f] # None =>
                  LET old == StateOf(rows, key)
                      new == StateOf(rows', key)
                  IN  IF old.values[f] = None \/ priority > old.field_priorities[f]
                      THEN /\ new.values[f] = values[f]
                           /\ new.field_priorities[f] = priority
                      ELSE /\ new.values[f] = old.values[f]
                           /\ new.field_priorities[f] = old.field_priorities[f]
      ]_vars

\* C1 witness: the last call brought, at the priority already recorded for a
\* field, a value other than the stored one, and the stored one was kept.
C1_TieKeptFirstSeen ==
    /\ last_call.n >= 2
    /\ \E f \in Fields :
         LET state == StateOf(rows, RowKey(last_call.values))
         IN  /\ last_call.values[f] # None
             /\ state.values[f] # None
             /\ state.values[f] # last_call.values[f]
             /\ state.field_priorities[f] = SOURCE_PRIORITY[last_call.source]

\* C2: once a pdf record and a csv record of one key both supplied a field,
\* the field is held at csv's priority, and with exactly these two records
\* folded in (in either order) the row holds the csv value.
C2_CsvBeatsPdf ==
    \A i \in RowIndexes : \A f \in Fields :
        BothRecorded(RowState(i), f) =>
            /\ RowState(i).field_priorities[f] = 2
            /\ last_call.n = 2 =>
                 RowState(i).values[f] = RowState(i).field_values_by_source[f]["csv"]

\* C2 witness: csv was folded in first, pdf second with another value, and
\* the row holds the csv value.
C2_CsvFirstStillWins ==
    /\ last_call.n = 2
    /\ last_call.source = "pdf"
    /\ \E i \in RowIndexes : \E f \in Fields :
         /\ BothRecorded(RowState(i), f)
         /\ RowState(i).field_values_by_source[f]["pdf"]
              # RowState(i).field_values_by_source[f]["csv"]
         /\ RowState(i).values[f] = RowState(i).field_values_by_source[f]["csv"]

\* C3: a value a row holds from a manual override entry is never replaced
\* (by a csv record or by a parsed pdf record).
C3_ManualNeverReplaced ==
    [][ \A kf \in manual_held :
            StateOf(rows', kf[1]).values[kf[2]] = StateOf(rows, kf[1]).values[kf[2]]
      ]_vars

SameMatchIds(a, b) ==
    /\ a["match_id"] = b["match_id"]
    /\ a["match_number"] = b["match_number"]
    /\ (a["match_id"] # None \/ a["match_number"] # None)

\* C4: no two rows have the same match_id and match_number and team and
\* player names that differ only in letter case.
C4_CaseInsensitiveKey ==
    \A i, j \in RowIndexes :
        (/\ i # j
         /\ SameMatchIds(RowState(i).values, RowState(j).values)
         /\ Lower(RowState(i).values["team"]) = Lower(RowState(j).values["team"]))
        => Lower(RowState(i).values["player_name"])
             # Lower(RowState(j).values["player_name"])

\* C4 witness: one row took a pdf record and a csv record whose team and
\* player names differ in case.
C4_CaseVariantsMerged ==
    \E i \in RowIndexes :
        /\ RowState(i).field_values_by_source["team"]["pdf"] = "Team A"
        /\ RowState(i).field_values_by_source["team"]["csv"] = "team a"
        /\ RowState(i).field_values_by_source["player_name"]["pdf"] = "ann"
        /\ RowState(i).field_values_by_source["player_name"]["csv"] = "Ann"

\* C5: the kickoff component of a key is non-empty only when match_id and
\* match_number are both absent, and no two rows agree on match_id,
\* match_number (one of them present), team and player.
C5_KickoffOnlyAsFallback ==
    /\ \A i \in RowIndexes :
         rows[i].key[3] # "" => (rows[i].key[1] = "" /\ rows[i].key[2] = "")
    /\ \A i \in RowIndexes :
         (RowState(i).values["match_id"] # None
            \/ RowState(i).values["match_number"] # None) => rows[i].key[3] = ""
    /\ \A i, j \in RowIndexes :
         (/\ SameMatchIds(RowState(i).values, RowState(j).values)
          /\ RowState(i).values["team"] = RowState(j).values["team"]
          /\ RowState(i).values["player_name"] = RowState(j).values["player_name"])
         => i = j

\* C5 witness: one row took two records that differ in kickoff.
C5_KickoffsShareRow ==
    \E i \in RowIndexes :
        /\ rows[i].key[3] = ""
        /\ RowState(i).field_values_by_source["kickoff"]["pdf"] = K1a
        /\ RowState(i).field_values_by_source["kickoff"]["csv"] = K2

\* C6: records of one team and player with the same match_number, of which
\* only one carries a match_id, are in a single row.
C6_MissingIdDoesNotSplit ==
    \A i, j \in RowIndexes :
        (/\ RowState(i).values["match_number"] # None
         /\ RowState(i).values["match_number"] = RowState(j).values["match_number"]
         /\ RowState(i).values["match_id"] # None
         /\ RowState(j).values["match_id"] = None
         /\ rows[i].key[4] = rows[j].key[4]
         /\ rows[i].key[5] = rows[j].key[5])
        => i = j

IsTaggedMatch(data_sources) ==
    data_sources \in {"csv;pdf;match", "csv;match", "pdf;match"}

\* C7: a row is tagged "match" exactly when csv and pdf both contributed,
\* some field has a recorded value of both, and all such fields are equal.
C7_AgreementTag ==
    \A i \in RowIndexes :
        IsTaggedMatch(SerialiseRow(RowState(i)).data_sources)
        <=> /\ RowState(i).data_sources = {"csv", "pdf"}
            /\ \E f \in Fields : BothRecorded(RowState(i), f)
            /\ \A f \in Fields :
                 BothRecorded(RowState(i), f) =>
                   RowState(i).field_values_by_source[f]["pdf"]
                     = RowState(i).field_values_by_source[f]["csv"]

\* C7 witness: a row whose kickoff and host were both supplied by csv and by
\* pdf, with equal values, is tagged.
C7_TaggedRow ==
    \E i \in RowIndexes :
        /\ BothRecorded(RowState(i), "kickoff")
        /\ BothRecorded(RowState(i), "host")
        /\ SerialiseRow(RowState(i)).data_sources = "csv;pdf;match"

\* the comparison column of C8 for two recorded values, by their formatted texts
ComparisonText(pdf_text, csv_text) ==
    IF pdf_text = csv_text
    THEN "PDF, CSV: " \o pdf_text
    ELSE "PDF: " \o pdf_text \o " / CSV: " \o csv_text

\* the comparison column of C8 for two recorded values, by their raw values
ComparisonByValue(pdf_value, csv_value, pdf_text, csv_text) ==
    IF pdf_value = csv_value
    THEN "PDF, CSV: " \o pdf_text
    ELSE "PDF: " \o pdf_text \o " / CSV: " \o csv_text

\* C8 as stated: a value once recorded for a source stays recorded for it,
\* and the kickoff and host columns show both values when the values differ
\* and the shared form only when the values are equal.
C8_EveryValueStaysRecorded ==
    [][ /\ \A i \in RowIndexes : \A f \in Fields : \A s \in Sources :
             RowState(i).field_values_by_source[f][s] # None =>
               rows'[i].state.field_values_by_source[f][s]
                 = RowState(i).field_values_by_source[f][s]
        /\ \A i \in 1..Len(rows') :
             LET by == rows'[i].state.field_values_by_source
                 out == SerialiseRow(rows'[i].state)
             IN  /\ BothRecorded(rows'[i].state, "kickoff") =>
                       out.kickoff_comparison
                         = ComparisonByValue(by["kickoff"]["pdf"], by["kickoff"]["csv"],
                                             FormatKickoffDate(by["kickoff"]["pdf"]),
                                             FormatKickoffDate(by["kickoff"]["csv"]))
                 /\ BothRecorded(rows'[i].state, "host") =>
                       out.host_comparison
                         = ComparisonByValue(by["host"]["pdf"], by["host"]["csv"],
                                             by["host"]["pdf"], by["host"]["csv"])
      ]_vars

\* C8 amended: a call records each non-None value of its record for its
\* source, replacing what that source recorded before, and leaves every
\* other recorded value alone (also the value that lost the priority rule);
\* the kickoff and host columns show both values when their formatted texts
\* differ and the shared form when the formatted texts are equal.
C8_LatestValuePerSource ==
    [][ /\ LET values == last_call'.values
               source == last_call'.source
               new == StateOf(rows', RowKey(values)).field_values_by_source
           IN  \A f \in Fields : \A s \in Sources :
                 new[f][s] =
                   IF s = source /\ values[f] # None THEN values[f]
                   ELSE IF HasKey(rows, RowKey(values))
                   THEN StateOf(rows, RowKey(values)).field_values_by_source[f][s]
                   ELSE None
        /\ \A i \in 1..Len(rows') :
             LET by == rows'[i].state.field_values_by_source
                 out == SerialiseRow(rows'[i].state)
             IN  /\ BothRecorded(rows'[i].state, "kickoff") =>
                       out.kickoff_comparison
                         = ComparisonText(FormatKickoffDate(by["kickoff"]["pdf"]),
                                          FormatKickoffDate(by["kickoff"]["csv"]))
                 /\ BothRecorded(rows'[i].state, "host") =>
                       out.host_comparison
                         = ComparisonText(by["host"]["pdf"], by["host"]["csv"])
      ]_vars

\* C8 witness: the row holds the csv host, the pdf host that lost is still
\* recorded, and the host column shows both.
C8_LoserStillShown ==
    \E i \in RowIndexes :
        /\ RowState(i).values["host"] = "Team A"
        /\ RowState(i).field_values_by_source["host"]["pdf"] = "Team B"
        /\ SerialiseRow(RowState(i)).host_comparison = "PDF: Team B / CSV: Team A"

\* the sort order of C9: tuples of (kickoff, match_number, team, player_name),
\* None read as "", compared item by item in str order
OutputKey(row) ==
    [c \in 1..4 |->
        LET v == row.values[<<"kickoff", "match_number", "team", "player_name">>[c]]
        IN  IF v = None THEN "" ELSE v]

OutputKeyLeq(a, b) ==
    \/ a = b
    \/ \E c \in 1..4 : /\ \A d \in 1..(c - 1) : a[d] = b[d]
                       /\ Rank(a[c]) < Rank(b[c])

\* C9: _serialise_rows emits one row per key, in ascending order of
\* (kickoff, match_number, team, player_name) with None read as "".
C9_OneRowPerKeySorted ==
    LET out == SerialiseRows(rows)
    IN  /\ Len(out) = Cardinality({rows[i].key : i \in RowIndexes})
        /\ \A i \in RowIndexes : \E o \in 1..Len(out) :
             out[o] = SerialiseRow(RowState(i))
        /\ \A o \in 1..(Len(out) - 1) :
             OutputKeyLeq(OutputKey(out[o]), OutputKey(out[o + 1]))

\* C9 witness: a row without match_number, inserted second, is emitted first.
C9_MissingNumberFirst ==
    LET out == SerialiseRows(rows)
    IN  /\ Len(rows) = 2
        /\ RowState(2).values["match_number"] = None
        /\ RowState(1).values["match_number"] # None
        /\ RowState(1).values["kickoff"] = RowState(2).values["kickoff"]
        /\ out[1].values = RowState(2).values

\* a name-only line: the jersey number, then words without a digit
IsNameOnlyLine(line) ==
    /\ Len(line) > 1
    /\ line[1] \in IntTokens
    /\ ~HasDigit(Tail(line))
    /\ \A i \in 2..Len(line) : ~IsCompactValue(line[i]) /\ line[i] \notin {"-", "+"}

\* a line that holds only numeric values
IsValuesOnlyLine(line) ==
    /\ line # <<>>
    /\ \A i \in 1..Len(line) : IsCompactValue(line[i])

\* the players appended while line i or line i + 1 was being read
EmittedFor(i) == {j \in 1..Len(players) : emitted[j] \in {i, i + 1}}

\* C10: when _parse_team_player_lines has returned, every player row that is
\* wrapped over two lines (a name-only line that begins with the jersey
\* number, then a values-only line) has produced exactly one player, appended
\* when the values line was read and equal to what _parse_player_stats_line
\* returns for the two lines joined by one blank; players are appended in the
\* order of the lines that completed them.
C10_WrappedRowEmittedOnce ==
    pc = "done" =>
        /\ \A i \in 1..(Len(lines) - 1) :
              IsNameOnlyLine(lines[i]) /\ IsValuesOnlyLine(lines[i + 1]) =>
                  /\ Cardinality(EmittedFor(i)) = 1
                  /\ \A j \in EmittedFor(i) :
                        /\ emitted[j] = i + 1
                        /\ <<players[j]>> = ParsePlayerStatsLine(lines[i] \o lines[i + 1])
        /\ \A j, k \in 1..Len(players) : j < k => emitted[j] < emitted[k]

IsInactivePlayerOf(player, line) ==
    /\ player.player_name = PrettyName(Tail(line))
    /\ player.jersey_number = JerseyOf(line)
    /\ player.metrics = ZeroMetrics
    /\ player.total_points = SomeInt(0)

\* line i is the last line, or the line after it is a heading
EndsBlockAfter(i) ==
    \/ i = Len(lines)
    \/ i < Len(lines) /\ lines[i + 1] # BlankLine /\ IsHeadingLine(lines[i + 1])

\* C11: when _parse_team_player_lines has returned, every name-only line that
\* is directly followed by the end of the input or by a heading line has been
\* emitted as a player with that name and jersey number, all metrics zero and
\* total_points = 0.
C11_NameOnlyLineEmitted ==
    pc = "done" =>
        \A i \in 1..Len(lines) :
            IsNameOnlyLine(lines[i]) /\ EndsBlockAfter(i) =>
                \E j \in 1..Len(players) : IsInactivePlayerOf(players[j], lines[i])

\* a complete player line: jersey number, name and values, parsed on its own
IsCompleteLine(line) ==
    /\ line # BlankLine
    /\ line[1] \in IntTokens
    /\ TryParse(line) # NoPlayer

\* C12: a step that reads a complete player line while a name-only line of
\* another jersey number is buffered appends two players: the buffered name
\* as an inactive player, then the player of the new line with the
\* statistics of that line alone.
C12_OrphanThenCompleteLine ==
    [][ (/\ ContentLine
         /\ pending # NoPending
         /\ IsNameOnlyLine(pending[1])
         /\ IsCompleteLine(lines[pos])
         /\ JerseyOf(lines[pos]) # JerseyOf(pending[1]))
        => /\ Len(players') = Len(players) + 2
           /\ SubSeq(players', 1, Len(players)) = players
           /\ IsInactivePlayerOf(players'[Len(players) + 1], pending[1])
           /\ <<players'[Len(players) + 2]>> = TryParse(lines[pos])
      ]_vars

\* what resolve_match_stats_metrics has to return for entry
ResolveContract(r) ==
    /\ entry.metrics # NoMetrics => r = entry.metrics
    /\ entry.metrics = NoMetrics /\ entry.totals_line = <<>> => r = NoMetrics
    /\ entry.metrics = NoMetrics /\ entry.totals_line # <<>> =>
           r = ParseMatchStatsMetrics(entry.totals_line)

GluedLines == {GluedTotals, SlashTotals, UnsplitTotals}

ServeRunOf(line) == IF line = UnsplitTotals THEN <<9, 9, 6, 1>> ELSE <<1, 9, 1, 4>>

AttackRunOf(line) == <<8, 5, 2>>

\* C18: for a totals line whose serve errors+points and attack
\* blocked+points are glued digit runs, the metrics carry the first split of
\* each run (second half of 1, 2, then 3 digits) that is within the bounds
\* 60/60 and 40/150, and the result is None when a run has no such split.
C18_GluedRunsAreSplit ==
    \A i \in 1..Len(resolved) :
        entry.metrics = NoMetrics /\ entry.totals_line \in GluedLines =>
            LET serve_split ==
                    SplitCompoundValue(ServeRunOf(entry.totals_line),
                                       60, 60)
                attack_split ==
                    SplitCompoundValue(AttackRunOf(entry.totals_line),
                                       40, 150)
            IN  IF serve_split = NoSplit \/ attack_split = NoSplit
                THEN resolved[i] = NoMetrics
                ELSE /\ resolved[i] # NoMetrics
                     /\ resolved[i][1].serves_errors = serve_split[1]
                     /\ resolved[i][1].serves_points = serve_split[2]
                     /\ resolved[i][1].attacks_blocked = attack_split[1]
                     /\ resolved[i][1].attacks_points = attack_split[2]

\* C19: every MatchStatsMetrics the parsers build has receptions_positive
\* and receptions_perfect at most receptions_attempts, and both are 0 when
\* receptions_attempts is 0.
C19_DerivedCountsWithinAttempts ==
    \A i \in 1..Len(resolved) :
        resolved[i] # NoMetrics =>
            LET metrics == resolved[i][1]
            IN  /\ metrics.receptions_positive <= metrics.receptions_attempts
                /\ metrics.receptions_perfect <= metrics.receptions_attempts
                /\ metrics.receptions_attempts = 0 =>
                       /\ metrics.receptions_positive = 0
                       /\ metrics.receptions_perfect = 0

\* the lines of the page that hold a sentinel
SentinelLines == {i \in 1..Len(data.text) : IsMarker(data.text[i])}

\* C13: _parse_stats_totals_pdf returns exactly one MatchStatsTotals per
\* sentinel line of the page, in sentinel order, and returns the empty
\* tuple, without raising, when the page has no sentinel or cannot be read.
C13_OneSummaryPerSentinel ==
    /\ page_pc # "raised"
    /\ page_pc = "done" =>
           /\ Len(summaries) = Cardinality(SentinelLines)
           /\ summary_markers = Markers(data.text)
           /\ data.kind # "page" => summaries = <<>>

\* the sentinel variants of the model: the German label, the English label
\* and the slash-joined bilingual label
IsSentinelVariant(line) ==
    line \in {MarkerLine, EnglishMarkerLine, BilingualMarkerLine}

\* C14: a line that equals "Spieler insgesamt" or a translated variant, or a
\* slash-joined bilingual label with such a half, counts as a team-totals
\* sentinel: when the team's totals follow it, the team gets its
\* MatchStatsTotals; "Spielerinnen Übersicht" never counts.
C14_VariantsAreSentinels ==
    page_pc = "done" =>
        \A i \in 1..Len(data.text) :
            /\ ( /\ IsSentinelVariant(data.text[i])
                 /\ i < Len(data.text)
                 /\ data.text[i + 1] = KeywordTotals )
                   => \E k \in 1..Len(summary_markers) : summary_markers[k] = i
            /\ data.text[i] = OverviewLine
                   => \A k \in 1..Len(summary_markers) : summary_markers[k] # i

\* line i stands above the sentinel of summary k, after the sentinel before it
AboveSentinel(i, k) ==
    /\ i < summary_markers[k]
    /\ \A j \in i..(summary_markers[k] - 1) : ~IsMarker(data.text[j])

\* C15: every parseable player row printed above a sentinel yields a record
\* in the players of that team's MatchStatsTotals.
C15_RowsAboveSentinelParsed ==
    page_pc = "done" =>
        \A k \in 1..Len(summaries) :
            \A i \in 1..Len(data.text) :
                AboveSentinel(i, k) /\ IsCompleteLine(data.text[i]) =>
                    \E j \in 1..Len(summaries[k].players) :
                        /\ summaries[k].players[j].jersey_number = JerseyOf(data.text[i])
                        /\ summaries[k].players[j].metrics = TryParse(data.text[i])[1].metrics

\* C16: when the download fails with a request error the call returns, and
\* its value has one MatchStatsTotals per manual entry of the stats_url, with
\* the manual metrics and players and empty header_lines and totals_line;
\* it is the empty tuple when the stats_url has no manual entry.
C16_FailedDownloadGivesManual ==
    \A i \in 1..Len(returned) :
        returned[i].download = "failed" =>
            LET manual_entries == manual[returned[i].url]
                value == returned[i].value
            IN  /\ returned[i].outcome = "returned"
                /\ Len(value) = Len(manual_entries)
                /\ \A k \in 1..Len(value) :
                       /\ value[k].team_name = manual_entries[k].team_name
                       /\ value[k].header_lines = <<>>
                       /\ value[k].totals_line = <<>>
                       /\ value[k].metrics = <<manual_entries[k].metrics>>
                       /\ value[k].players = manual_entries[k].players

\* a download failed for a stats_url with two manual entries, one of them
\* with players
C16_ManualReturnedOffline ==
    \E i \in 1..Len(returned) :
        /\ returned[i].download = "failed"
        /\ manual[returned[i].url] = <<ManualUsc, ManualSuhl>>
        /\ Len(returned[i].value) = 2
        /\ returned[i].value[1].players = <<ManualPlayer>>

\* C20: once a call has stored a result for a stats_url, the cache entry
\* stays, no further request is made for that stats_url, and every later
\* call returns the stored tuple, the empty tuple of a failed download
\* included; every call that returns has stored what it returns.
C20_StoredResultIsReused ==
    /\ [](\A i \in 1..Len(returned) :
              returned[i].outcome = "returned" =>
                  /\ cache[returned[i].url] = <<returned[i].value>>
                  /\ \A j \in (i + 1)..Len(returned) :
                         returned[j].url = returned[i].url =>
                             returned[j] = Returned(returned[i].url, returned[i].value, "none"))
    /\ [][\A url \in Urls :
              cache[url] # NotCached =>
                  /\ cache'[url] = cache[url]
                  /\ requests'[url] = requests[url]]_vars

\* a failed download without manual entry stored the empty tuple, and the
\* next call for the stats_url was served from the cache
C20_FailureNotRetried ==
    /\ Len(returned) >= 2
    /\ returned[1].download = "failed"
    /\ returned[1].value = <<>>
    /\ returned[2].url = returned[1].url
    /\ returned[2].download = "none"
    /\ requests[returned[1].url] = 1

(***************************************************************************)
(* Claims about fetch_match_stats_totals under concurrent callers          *)
(***************************************************************************)
\* the call has left fetch_match_stats_totals after missing the cache
EndedAfterMiss(c) ==
    /\ calls[c].pc \in {"returned", "raised"}
    /\ calls[c].response.kind # "none"

C22_ParsedPlayersKept ==
    \A i \in 1..Len(returned) :
        returned[i].download = "ok" =>
            \A k \in 1..Len(returned[i].parsed) :
                LET parsed_summary == returned[i].parsed[k]
                    manual_entries == manual[returned[i].url]
                IN  ( /\ parsed_summary.players # <<>>
                      /\ \E idx \in 1..Len(manual_entries) :
                             \E key \in 1..Len(manual_entries[idx].keys) :
                                 manual_entries[idx].keys[key]
                                     = NormalizeName(parsed_summary.team_name) )
                    => /\ returned[i].value[k].team_name = parsed_summary.team_name
                       /\ returned[i].value[k].players = parsed_summary.players

(***************************************************************************)
(* Claims about summarize_metrics                                          *)
(***************************************************************************)
\* C23: summarize_metrics returns None for an empty list; otherwise every
\* count field of the result is the sum of that field over the entries,
\* and receptions_positive_pct, receptions_perfect_pct and
\* attacks_success_pct are the rounded percentages of the summed counts
\* (receptions_positive, receptions_perfect, attacks_points) in the summed
\* attempts, whatever the percentage strings of the single matches say.
C23_PercentagesFromCounts ==
    \A i \in 1..Len(aggregated) :
        LET RECURSIVE SumOf(_, _)
            SumOf(field, k) == IF k = 0 THEN 0 ELSE entries[k][field] + SumOf(field, k - 1)
            \* pct is count / attempts as a whole percentage, rounded either
            \* way at a half
            IsPercentageOf(pct, count, attempts) ==
                attempts > 0 =>
                    \E q \in 0..((100 * count) \div attempts + 1) :
                        /\ pct = <<Concat(ToString(q), "%")>>
                        /\ 2 * (q * attempts - 100 * count) <= attempts
                        /\ 2 * (100 * count - q * attempts) <= attempts
        IN  IF entries = <<>> THEN aggregated[i] = <<>>
            ELSE /\ aggregated[i] # <<>>
                 /\ \A field \in { "serves_attempts", "serves_errors", "serves_points",
                                   "receptions_attempts", "receptions_errors",
                                   "receptions_positive", "receptions_perfect",
                                   "attacks_attempts", "attacks_errors", "attacks_blocked",
                                   "attacks_points", "blocks_points" } :
                        aggregated[i][1][field] = SumOf(field, Len(entries))
                 /\ IsPercentageOf(aggregated[i][1].receptions_positive_pct,
                                   aggregated[i][1].receptions_positive,
                                   aggregated[i][1].receptions_attempts)
                 /\ IsPercentageOf(aggregated[i][1].receptions_perfect_pct,
                                   aggregated[i][1].receptions_perfect,
                                   aggregated[i][1].receptions_attempts)
                 /\ IsPercentageOf(aggregated[i][1].attacks_success_pct,
                                   aggregated[i][1].attacks_points,
                                   aggregated[i][1].attacks_attempts)

\* ---------------------------------------------------------------------------
\* Claims about _load_manual_stats_totals
\* ---------------------------------------------------------------------------

\* C24: while the manual overrides are loaded, a malformed match, team or
\* player entry is only skipped: the loader never raises, and when it has
\* returned, every match entry that loads on its own is held under its
\* stats_url (as loaded by the last such entry of that stats_url).
C24_MalformedEntrySkipped ==
    /\ load_pc # "raised"
    /\ load_pc = "returned" =>
         \A i \in 1..Len(payload) :
            LoadMatchEntry(payload[i]).outcome = "store" =>
               \E j \in i..Len(payload) :
                  /\ LoadMatchEntry(payload[j]).outcome = "store"
                  /\ LoadMatchEntry(payload[j]).stats_url = LoadMatchEntry(payload[i]).stats_url
                  /\ manual[LoadMatchEntry(payload[i]).stats_url] =
                        LoadMatchEntry(payload[j]).teams_entries

\* ---------------------------------------------------------------------------
\* Claims about the buffer of _parse_team_player_lines
\* ---------------------------------------------------------------------------

\* C25: while a line is buffered, a content line that parses neither alone
\* nor behind the buffer is added to the buffer and nothing buffered is
\* dropped; so a row wrapped over a name line, a text-only line and a values
\* line gives one player with the name and jersey number of the name line.
C25_PendingKeepsText ==
    [][ /\ ( /\ ContentLine
             /\ pending # NoPending
             /\ pending' # NoPending )
           => pending' = <<pending[1] \o lines[pos]>>
        /\ ( /\ lines = <<JordanLine, TextLine, ValuesLine>>
             /\ pc' = "done" )
           => /\ Len(players') = 1
              /\ players'[1].jersey_number = SomeInt(9)
              /\ players'[1].player_name =
                    TryParse(JordanLine \o TextLine \o ValuesLine)[1].player_name
      ]_vars

\* ---------------------------------------------------------------------------
\* Claims about _extract_compact_value_tokens
\* ---------------------------------------------------------------------------

\* C26: when fewer than 16 value tokens are found, the 16 values are "." on
\* the left followed by the found tokens, so the last value token of the line
\* is the one blocks_points is read from.
C26_PaddedOnTheLeft ==
    \A parts \in ExtractedParts :
        LET extracted == ExtractCompactValueTokens(parts)
            found == extracted.consumed
            last == CHOOSE i \in 1..Len(parts) :
                        /\ IsCompactValue(parts[i])
                        /\ \A j \in (i + 1)..Len(parts) : ~IsCompactValue(parts[j])
        IN  extracted # NoTokens =>
               /\ \A k \in 1..(ValueCount - found) : extracted.values[k] = "."
               /\ \A k \in 1..found :
                     extracted.values[ValueCount - found + k] = parts[last - found + k]
               /\ BuildMetricsFromCompactTokens(extracted.values).blocks_points =
                     ParseIntToken(parts[last])

\* C27: a text that ends in fewer than 3 value tokens is not a stats line:
\* the token extraction gives no match and _parse_player_stats_line builds
\* no record from it.
C27_FewTokensNoMatch ==
    \A text \in {t \in TriedTexts : t[1] \notin StaffWords /\ AfterJersey(t) # <<>>} :
        LET parts == TokenizeCompactStatsText(AfterJersey(text))
            \* the number of value tokens that end the parts
            trailing ==
                Cardinality({ k \in 1..Len(parts) :
                                \A j \in (Len(parts) - k + 1)..Len(parts) :
                                    IsCompactValue(parts[j]) })
        IN  trailing < 3 =>
               /\ ExtractCompactValueTokens(parts) = NoTokens
               /\ ParsePlayerStatsLine(text) = NoPlayer

\* C28: when the plus/minus field of a row is extracted as a sign token of its
\* own followed by a number ("+" "10", "-" "5") and 13 more values, the sign
\* and the number are one signed value: the row still yields all 16
\* positional values, plus_minus is the signed number, and total_points and
\* break_points are the two tokens before the sign.
C28_SplitSignCoalesced ==
    \A text \in {t \in TriedTexts : t[1] \notin StaffWords /\ AfterJersey(t) # <<>>} :
        LET parts == TokenizeCompactStatsText(AfterJersey(text))
            parsed == ParsePlayerStatsLine(text)
        IN  \A i \in 3..(Len(parts) - 14) :
               ( /\ i + 14 = Len(parts)
                 /\ parts[i] \in {"+", "-"}
                 /\ parts[i + 1] \in IntTokens
                 /\ \A j \in ({i - 2, i - 1} \cup ((i + 1)..Len(parts))) :
                       IsCompactValue(parts[j]) )
               => /\ parsed # NoPlayer
                  /\ parsed[1].plus_minus =
                        SomeInt(IF parts[i] = "+" THEN IntTokenValue[parts[i + 1]]
                                ELSE 0 - IntTokenValue[parts[i + 1]])
                  /\ parsed[1].total_points = SomeInt(ParseIntToken(parts[i - 2]))
                  /\ parsed[1].break_points = SomeInt(ParseIntToken(parts[i - 1]))
                  /\ parsed[1].metrics =
                        BuildMetricsFromCompactTokens(
                            <<parts[i - 2], parts[i - 1], parts[i + 1]>>
                                \o SubSeq(parts, i + 2, Len(parts)))

\* C29: the consumed count identifies the value tokens exactly: the parts
\* before index len(parts) - consumed are the parts before the first accepted
\* value token, so no accepted value token is among the name tokens of
\* _parse_compact_player_stats, also when the parts end in words.
C29_ConsumedCountsValueTokens ==
    \A parts \in ExtractedParts :
        LET extracted == ExtractCompactValueTokens(parts)
            found == extracted.consumed
            \* the position of the last accepted value token
            last == CHOOSE i \in 1..Len(parts) :
                        /\ IsCompactValue(parts[i])
                        /\ \A j \in (i + 1)..Len(parts) : ~IsCompactValue(parts[j])
            \* the positions of the accepted value tokens
            accepted == (last - found + 1)..last
            name_tokens == 1..(Len(parts) - found)
        IN  extracted # NoTokens =>
               /\ name_tokens \cap accepted = {}
               /\ name_tokens = 1..(last - found)

\* ---------------------------------------------------------------------------
\* Claims about the row's value and the per-source record of _merge_row
\* ---------------------------------------------------------------------------

\* the source whose priority field_priorities records for a field
WinningSource(state, f) ==
    CHOOSE s \in Sources : SOURCE_PRIORITY[s] = state.field_priorities[f]

\* the row holds a value of f other than the one recorded for its source
WinnerDiffers(state, f) ==
    /\ state.values[f] # None
    /\ state.values[f] # state.field_values_by_source[f][WinningSource(state, f)]

\* C30 as stated: after any sequence of _merge_row calls the value a row holds
\* for a field is the value recorded in field_values_by_source for the source
\* whose priority field_priorities records.
C30_WinnerEqualsRecorded ==
    \A i \in RowIndexes : \A f \in Fields : ~WinnerDiffers(RowState(i), f)

\* C30 amended: a call that sets the row's value of a field (the key is new,
\* or the stored value is None, or the priority is strictly greater) makes it
\* the value recorded for the call's source; any other call keeps the row's
\* value and its priority, and the row's value comes to differ from the value
\* recorded for its source only by a call of that source that supplies
\* another value.
C30_WinnerSetFromItsSource ==
    [][ LET values == last_call'.values
            source == last_call'.source
            priority == SOURCE_PRIORITY[source]
            key == RowKey(values)
            new == StateOf(rows', key)
        IN  \A f \in Fields :
              IF ~HasKey(rows, key)
              THEN values[f] # None =>
                     /\ new.values[f] = values[f]
                     /\ new.field_priorities[f] = priority
                     /\ ~WinnerDiffers(new, f)
              ELSE LET old == StateOf(rows, key)
                   IN  IF /\ values[f] # None
                          /\ (old.values[f] = None \/ priority > old.field_priorities[f])
                       THEN /\ new.values[f] = values[f]
                            /\ new.field_priorities[f] = priority
                            /\ ~WinnerDiffers(new, f)
                       ELSE /\ new.values[f] = old.values[f]
                            /\ new.field_priorities[f] = old.field_priorities[f]
                            /\ (WinnerDiffers(new, f) /\ ~WinnerDiffers(old, f)) =>
                                  /\ source = WinningSource(new, f)
                                  /\ values[f] \notin {None, new.values[f]}
                                  /\ new.field_values_by_source[f][source] = values[f]
      ]_vars

\* C30 witness: the last call was a second record of the source that holds
\* the row's host; the row kept the first host, and the host recorded for
\* that source is now the one of the last call.
C30_WinnerShownDiffers ==
    /\ last_call.n >= 2
    /\ LET state == StateOf(rows, RowKey(last_call.values))
       IN  /\ WinnerDiffers(state, "host")
           /\ WinningSource(state, "host") = last_call.source
           /\ state.field_values_by_source["host"][last_call.source] = last_call.values["host"]

====
